---- MODULE Spec2Model ----
(***************************************************************************)
(* A model of the BigQuery ORM: the predicate compiler (src/utils.ts       *)
(* buildWhereClause), the association registry, the select statement       *)
(* builder, the read and write operations of a model class and the         *)
(* reconstruction of nested results (src/model.ts), over an execution      *)
(* engine that evaluates the statements they send.                         *)
(*                                                                         *)
(* Text is modelled at the level of lexemes.  A name (identifier, alias,   *)
(* table name) is a sequence of one-character strings, so that             *)
(* toLowerCase and template concatenation are computed, and SQL text is a  *)
(* sequence of tokens [k, s, n]: k is the lexeme itself ("(", "AND", "=",  *)
(* ..., and "BQ" for the backquote that delimits identifiers) or the class *)
(* "id" (a name, in s), "param" (@param<n>), "set" (@set_<s>) or "lit"     *)
(* (the number n written into the text).                                   *)
(***************************************************************************)
EXTENDS Integers, Sequences, FiniteSets, TLC

VARIABLES
    whereIn,       \* buildWhereClause: the where argument
    indexIn,       \* buildWhereClause: the paramIndex argument
    built,         \* buildWhereClause: what the call returned (or "none" yet)
    tableName,     \* Model.tableName of every model class
    attributes,    \* Model.attributes of every model class: its keys in order
    associations,  \* Model.associations: alias -> Association
    declared,      \* history: per class, alias -> the last Association declared on it
    configIn,      \* history: the config argument of new BigQueryORM(config)
    config,        \* BigQueryORM.config
    db,            \* the engine's tables: per model class, the rows of its table
    call,          \* the last operation called, with its arguments
    ret,           \* what that call returned or threw
    sent,          \* the statements that call submitted to the engine
    dir,           \* the files of the migrations directory
    meta,          \* the migrations table of the meta dataset: [exists, rows]
    runs,          \* runMigrations: per caller, the position and the locals of its call
    ups,           \* history: per file, how often its up was invoked and completed
    ended,         \* history: the migration calls that ended, in the order they ended
    flights        \* per caller, the operation it awaits: the call, its arguments
                   \* as the caller holds them, the statements it submitted

vars == <<whereIn, indexIn, built, tableName, attributes, associations,
          declared, configIn, config, db, call, ret, sent, dir, meta, runs, ups,
          ended, flights>>

compilerVars == <<whereIn, indexIn, built>>
modelVars == <<tableName, attributes, associations, declared, configIn, config>>
migrationVars == <<dir, meta, runs, ups, ended>>

----------------------------------------------------------------------------
(* Bounds of the model *)

MaxWeight == 3
MaxStart == 1

----------------------------------------------------------------------------
(* Values and maps *)

\* JS undefined / null, and SQL NULL: an integer no number of the model
\* takes
Undefined == 0 - 999

Vals == {1, 2}

EmptyMap == [x \in {} |-> Undefined]

\* Object.assign(a, b) and { ...a, ...b }: b's entries override a's
Assign(a, b) ==
    [x \in (DOMAIN a) \cup (DOMAIN b) |-> IF x \in DOMAIN b THEN b[x] ELSE a[x]]

----------------------------------------------------------------------------
(* Tokens of SQL text *)

Tok(k) == [k |-> k, s |-> <<>>, n |-> 0]
Id(name) == [k |-> "id", s |-> name, n |-> 0]
ParamName(i) == [k |-> "param", s |-> <<>>, n |-> i]
SetName(field) == [k |-> "set", s |-> field, n |-> 0]
Lit(v) == [k |-> "lit", s |-> <<>>, n |-> v]

\* the identifier delimiter (backquote)
BT == Tok("BQ")

\* a delimited identifier
Quoted(name) == <<BT, Id(name), BT>>

RECURSIVE Join(_, _)
\* Array.prototype.join: the elements with sep between neighbours
Join(parts, sep) ==
    IF Len(parts) = 0 THEN <<>>
    ELSE IF Len(parts) = 1 THEN parts[1]
    ELSE parts[1] \o sep \o Join(Tail(parts), sep)

RECURSIVE Flatten(_)
\* Array.prototype.flat: the elements of the elements
Flatten(ss) == IF Len(ss) = 0 THEN <<>> ELSE Head(ss) \o Flatten(Tail(ss))

----------------------------------------------------------------------------
(* src/op.ts *)

Op ==
    [ eq |-> "=", ne |-> "!=", gt |-> ">", gte |-> ">=", lt |-> "<",
      lte |-> "<=", like |-> "LIKE", notLike |-> "NOT LIKE", in |-> "IN",
      notIn |-> "NOT IN", between |-> "BETWEEN",
      notBetween |-> "NOT BETWEEN", is |-> "IS", isNot |-> "IS NOT",
      and |-> "AND", or |-> "OR", not |-> "NOT", any |-> "ANY",
      all |-> "ALL", contains |-> "@>", contained |-> "<@" ]

----------------------------------------------------------------------------
(* Filter trees (WhereOptions)                                             *)
(*                                                                         *)
(* A filter object is [nil, ents]: nil for undefined, ents the             *)
(* Object.entries in insertion order.  An entry is                         *)
(* [key, t, val, vals, ops, kids]: t = "scalar" (val), "array" (vals),     *)
(* "object" (ops, the entries of the operator object [op, val] in order) or     *)
(* "trees" (kids, the filter objects under "and"/"or").                    *)
(***************************************************************************)

AndKey == <<"a", "n", "d">>
OrKey == <<"o", "r">>

NoWhere == [nil |-> TRUE, ents |-> <<>>]
Obj(ents) == [nil |-> FALSE, ents |-> ents]

ScalarEnt(key, v) ==
    [key |-> key, t |-> "scalar", val |-> v, vals |-> <<>>, ops |-> <<>>, kids |-> <<>>]
ArrayEnt(key, vs) ==
    [key |-> key, t |-> "array", val |-> Undefined, vals |-> vs, ops |-> <<>>, kids |-> <<>>]
ObjectEnt(key, ops) ==
    [key |-> key, t |-> "object", val |-> Undefined, vals |-> <<>>, ops |-> ops, kids |-> <<>>]
TreesEnt(key, kids) ==
    [key |-> key, t |-> "trees", val |-> Undefined, vals |-> <<>>, ops |-> <<>>, kids |-> kids]

----------------------------------------------------------------------------
(* src/utils.ts buildWhereClause *)

\* value.map((v) => { paramIndex++ ... }): the names
ArrayParamNames(vs, paramIndex) ==
    [i \in 1..Len(vs) |-> <<ParamName(paramIndex + i - 1)>>]

ArrayParams(vs, paramIndex) ==
    [x \in {ParamName(paramIndex + i - 1) : i \in 1..Len(vs)} |->
        vs[x.n - paramIndex + 1]]

\* Object.keys(value)[0]
FirstOpKey(ops) == IF Len(ops) = 0 THEN "undefined" ELSE ops[1].op

\* value[opKey]
FirstOpVal(ops) == IF Len(ops) = 0 THEN Undefined ELSE ops[1].val

\* Op[opKey] || "="
SqlOp(opKey) == IF opKey \in DOMAIN Op THEN Op[opKey] ELSE "="

RECURSIVE buildWhereClause(_, _, _)
RECURSIVE WhereEntries(_, _, _)
RECURSIVE ReduceSub(_, _, _)

RECURSIVE ReduceRestarting(_, _, _)
\* a reduce that compiles every child from parameter 0, its counter not
\* carried from one child to the next
ReduceRestarting(value, i, acc) ==
    IF i > Len(value) THEN acc
    ELSE
        LET b == buildWhereClause(value[i], acc.paramsAcc, 0)
        IN  ReduceRestarting(value, i + 1,
                [ clauseAcc |-> Append(acc.clauseAcc,
                                       <<Tok("(")>> \o b.clause \o <<Tok(")")>>),
                  paramsAcc |-> Assign(acc.paramsAcc, b.params),
                  indexAcc  |-> acc.indexAcc + b.nextIndex ])

\* (value as any[]).reduce(...): the and/or children, left to right
ReduceSub(value, i, acc) ==
    IF i > Len(value) THEN acc
    ELSE
        LET b == buildWhereClause(value[i], acc.paramsAcc, acc.indexAcc)
        IN  ReduceSub(value, i + 1,
                [ clauseAcc |-> Append(acc.clauseAcc,
                                       <<Tok("(")>> \o b.clause \o <<Tok(")")>>),
                  paramsAcc |-> Assign(acc.paramsAcc, b.params),
                  indexAcc  |-> b.nextIndex ])

\* for (const [key, value] of Object.entries(where)): st is
\* [clauses, localParams, paramIndex]
WhereEntries(ents, i, st) ==
    IF i > Len(ents) THEN st
    ELSE
        LET e == ents[i]
            p == ParamName(st.paramIndex)
        IN
        IF e.key = AndKey \/ e.key = OrKey THEN
            LET sub == ReduceSub(e.kids, 1,
                           [ clauseAcc |-> <<>>, paramsAcc |-> EmptyMap,
                             indexAcc |-> st.paramIndex ])
                kw == IF e.key = AndKey THEN Op.and ELSE Op.or
            IN  WhereEntries(ents, i + 1,
                    [ clauses |-> Append(st.clauses, Join(sub.clauseAcc, <<Tok(kw)>>)),
                      localParams |-> Assign(st.localParams, sub.paramsAcc),
                      paramIndex |-> sub.indexAcc ])
        ELSE IF e.t = "array" THEN
            WhereEntries(ents, i + 1,
                [ clauses |-> Append(st.clauses,
                      Quoted(e.key) \o <<Tok("IN"), Tok("(")>>
                      \o Join(ArrayParamNames(e.vals, st.paramIndex), <<Tok(",")>>)
                      \o <<Tok(")")>>),
                  localParams |-> Assign(st.localParams,
                                         ArrayParams(e.vals, st.paramIndex)),
                  paramIndex |-> st.paramIndex + Len(e.vals) ])
        ELSE IF e.t = "object" THEN
            WhereEntries(ents, i + 1,
                [ clauses |-> Append(st.clauses,
                      Quoted(e.key) \o <<Tok(SqlOp(FirstOpKey(e.ops))), p>>),
                  localParams |-> Assign(st.localParams, (p :> FirstOpVal(e.ops))),
                  paramIndex |-> st.paramIndex + 1 ])
        ELSE
            WhereEntries(ents, i + 1,
                [ clauses |-> Append(st.clauses, Quoted(e.key) \o <<Tok("="), p>>),
                  localParams |-> Assign(st.localParams, (p :> e.val)),
                  paramIndex |-> st.paramIndex + 1 ])

buildWhereClause(where, params, paramIndex) ==
    IF where.nil THEN
        [clause |-> <<>>, params |-> EmptyMap, nextIndex |-> paramIndex]
    ELSE
        LET st == WhereEntries(where.ents, 1,
                      [ clauses |-> <<>>, localParams |-> EmptyMap,
                        paramIndex |-> paramIndex ])
        IN  [ clause |-> Join(st.clauses, <<Tok("AND")>>),
              params |-> st.localParams,
              nextIndex |-> st.paramIndex ]

----------------------------------------------------------------------------
(* Model classes (src/model.ts Model.init and its static fields) *)

Upper == << "A", "B", "C", "D", "E", "F", "G", "H", "I", "J", "K", "L", "M",
            "N", "O", "P", "Q", "R", "S", "T", "U", "V", "W", "X", "Y", "Z" >>
Lower == << "a", "b", "c", "d", "e", "f", "g", "h", "i", "j", "k", "l", "m",
            "n", "o", "p", "q", "r", "s", "t", "u", "v", "w", "x", "y", "z" >>

\* String.prototype.toLowerCase
toLowerCase(name) ==
    [i \in 1..Len(name) |->
        IF \E j \in 1..Len(Upper) : Upper[j] = name[i]
        THEN Lower[CHOOSE j \in 1..Len(Upper) : Upper[j] = name[i]]
        ELSE name[i]]

\* the model classes of the application: User and Post, and Link, the
\* through model between them
Classes == {"User", "Post", "Link"}

\* this.name: the name of the class
ClassName ==
    [ User |-> <<"U", "s", "e", "r">>,
      Post |-> <<"P", "o", "s", "t">>,
      Link |-> <<"L", "i", "n", "k">> ]

\* options.tableName, where init is given one
ExplicitTableName ==
    [ User |-> <<"u", "s", "e", "r", "s">>,
      Post |-> <<"p", "o", "s", "t", "s">>,
      Link |-> <<"l", "i", "n", "k", "s">> ]

\* this.tableName = options.tableName || this.name.toLowerCase();
\* explicit: whether init was given options.tableName
InitTableName(c, explicit) ==
    IF explicit THEN ExplicitTableName[c] ELSE toLowerCase(ClassName[c])

\* static primaryKey = "id"; init: options.primaryKey || "id"
primaryKey == <<"i", "d">>

ColA == <<"a">>
ColB == <<"b">>
UserId == <<"u", "s", "e", "r", "I", "d">>
PostId == <<"p", "o", "s", "t", "I", "d">>

\* the attributes init is given: Object.keys order
InitAttributes ==
    [ User |-> <<primaryKey, ColA>>,
      Post |-> <<primaryKey, UserId, ColB>>,
      Link |-> <<UserId, PostId>> ]

\* this.orm.config.dataset
dataset == <<"d", "s">>

\* the argument of new BigQueryORM(config)
NoConfig == [logging |-> FALSE, freeTierMode |-> FALSE]

\* the constructor keeps projectId, dataset, keyFilename, metaDataset and
\* logging, and no other key of its argument
NewConfig(given) == [dataset |-> dataset, logging |-> given.logging]

\* this.orm.config.freeTierMode: a key the object lacks reads undefined
freeTierMode(cfg) == "freeTierMode" \in DOMAIN cfg /\ cfg.freeTierMode

Range(f) == {f[i] : i \in DOMAIN f}

----------------------------------------------------------------------------
(* The association registry (src/model.ts belongsTo, hasOne, hasMany,      *)
(* belongsToMany).  static associations = {} is one object on the base     *)
(* class Model; no subclass and no init gives a class a field of its own,  *)
(* so this.associations is that one object for every model class.          *)
(*                                                                         *)
(* An Association is [type, target, foreignKey, otherKey, as, through];    *)
(* otherKey = <<>> and through = "none" where the code leaves them out.    *)
(* The options of a declaration are [as, foreignKey, otherKey, through],   *)
(* <<>> and "none" standing for an option not given.                       *)

NoOptions == [as |-> <<>>, foreignKey |-> <<>>, otherKey |-> <<>>, through |-> "none"]

\* x || y on strings
OrElse(x, y) == IF x = <<>> THEN y ELSE x

\* this.associations, read on class c
AssociationsOf(reg, c) == reg

\* the Association each declaration stores
belongsTo(this, target, options) ==
    [ type |-> "belongsTo", target |-> target,
      foreignKey |-> OrElse(options.foreignKey,
                            toLowerCase(ClassName[target]) \o <<"I", "d">>),
      otherKey |-> <<>>,
      as |-> OrElse(options.as, toLowerCase(ClassName[target])),
      through |-> "none" ]

hasOne(this, target, options) ==
    [ type |-> "hasOne", target |-> target,
      foreignKey |-> OrElse(options.foreignKey,
                            toLowerCase(ClassName[this]) \o <<"I", "d">>),
      otherKey |-> <<>>,
      as |-> OrElse(options.as, toLowerCase(ClassName[target])),
      through |-> "none" ]

hasMany(this, target, options) ==
    [ type |-> "hasMany", target |-> target,
      foreignKey |-> OrElse(options.foreignKey,
                            toLowerCase(ClassName[this]) \o <<"I", "d">>),
      otherKey |-> <<>>,
      as |-> OrElse(options.as, toLowerCase(ClassName[target]) \o <<"s">>),
      through |-> "none" ]

belongsToMany(this, target, options) ==
    [ type |-> "belongsToMany", target |-> target,
      foreignKey |-> OrElse(options.foreignKey,
                            toLowerCase(ClassName[this]) \o <<"I", "d">>),
      otherKey |-> OrElse(options.otherKey,
                          toLowerCase(ClassName[target]) \o <<"I", "d">>),
      as |-> OrElse(options.as, toLowerCase(ClassName[target]) \o <<"s">>),
      through |-> options.through ]

NewAssociation(type, this, target, options) ==
    CASE type = "belongsTo" -> belongsTo(this, target, options)
      [] type = "hasOne"    -> hasOne(this, target, options)
      [] type = "hasMany"   -> hasMany(this, target, options)
      [] OTHER              -> belongsToMany(this, target, options)

\* this.associations[as] = a
Register(reg, a) == Assign(reg, (a.as :> a))

\* belongsTo alone: if (!this.attributes[foreignKey]) this.attributes[foreignKey] = ...
AttributesAfter(attrs, this, a) ==
    IF a.type = "belongsTo" /\ a.foreignKey \notin Range(attrs[this])
    THEN [attrs EXCEPT ![this] = Append(@, a.foreignKey)]
    ELSE attrs

\* one call this.<type>(target, options)
Declare(type, this, target, options) ==
    LET a == NewAssociation(type, this, target, options)
    IN  /\ associations' = Register(AssociationsOf(associations, this), a)
        /\ attributes' = AttributesAfter(attributes, this, a)
        /\ declared' = [declared EXCEPT ![this] = Assign(@, (a.as :> a))]
        /\ UNCHANGED <<tableName, configIn, config>>

----------------------------------------------------------------------------
(* src/model.ts buildSelectQuery                                           *)
(*                                                                         *)
(* FindOptions is [attributes, where, include, group, order, limit,        *)
(* offset, raw] and IncludeOptions [model, as, where, required,            *)
(* attributes]; an option not given is <<>> (a list or a name), NoWhere,   *)
(* Undefined (a number) or FALSE (a flag: undefined is falsy).             *)
(*                                                                         *)
(* The statement is returned as its text (sql) and bindings (params),      *)
(* together with the parts the text is made of, which is how the engine    *)
(* reads it: from, joins, where, select, limit, offset.                    *)

NoFindOptions ==
    [ attributes |-> <<>>, where |-> NoWhere, include |-> <<>>, group |-> <<>>,
      order |-> <<>>, limit |-> Undefined, offset |-> Undefined, raw |-> FALSE ]

Include(model, as, where, required) ==
    [ model |-> model, as |-> as, where |-> where, required |-> required,
      attributes |-> <<>> ]

\* a delimited table reference: dataset.table inside one pair of backquotes
TableRef(table) == <<BT, Id(dataset), Tok("."), Id(table), BT>>

\* alias.column, both delimited
QualifiedRef(as, col) == Quoted(as) \o <<Tok(".")>> \o Quoted(col)

\* the index of the first backquote after i that closes a non-empty run of
\* other tokens, or 0: the match of the regular expression at i
ClosingAt(t, i) ==
    IF \E j \in (i + 1)..Len(t) : t[j] = BT
    THEN LET j == CHOOSE j \in (i + 1)..Len(t) :
                      t[j] = BT /\ \A k \in (i + 1)..(j - 1) : t[k] # BT
         IN  IF j > i + 1 THEN j ELSE 0
    ELSE 0

RECURSIVE PrefixFrom(_, _, _)
\* clause.replace(/\x60([^\x60]+)\x60/g, "\x60" + as + "\x60.$1") from i on:
\* $1 is the text between the backquotes, without them
PrefixFrom(t, i, as) ==
    IF i > Len(t) THEN <<>>
    ELSE IF t[i] = BT /\ ClosingAt(t, i) # 0
    THEN Quoted(as) \o <<Tok(".")>> \o SubSeq(t, i + 1, ClosingAt(t, i) - 1)
         \o PrefixFrom(t, ClosingAt(t, i) + 1, as)
    ELSE <<t[i]>> \o PrefixFrom(t, i + 1, as)

prefixedClause(clause, as) == PrefixFrom(clause, 1, as)

\* inc.as || inc.model.tableName
IncludeAs(inc, tables) == OrElse(inc.as, tables[inc.model])

\* a lookup by alias alone, whatever the target
FindAliasOnly(reg, as, model) == {k \in DOMAIN reg : reg[k].as = as}

\* Object.values(this.associations).find((a) => a.as === as && a.target === inc.model):
\* the aliases that match (every Association is stored under its own alias,
\* so at most one does)
FindAssociation(reg, as, model) ==
    {k \in DOMAIN reg : reg[k].as = as /\ reg[k].target = model}

\* the JOIN clause of a resolver that joins every kind as belongsTo
JoinOnForeignKey(this, inc, assoc, tables) ==
    [ err |-> "",
      sql |-> <<Tok(IF inc.required THEN "INNER JOIN" ELSE "LEFT OUTER JOIN")>>
              \o TableRef(tables[inc.model]) \o <<Tok("AS")>>
              \o Quoted(IncludeAs(inc, tables)) \o <<Tok("ON")>>
              \o QualifiedRef(tables[this], assoc.foreignKey) \o <<Tok("=")>>
              \o QualifiedRef(IncludeAs(inc, tables), primaryKey),
      joins |-> << [ type |-> IF inc.required THEN "INNER JOIN" ELSE "LEFT OUTER JOIN",
                     table |-> tables[inc.model], as |-> IncludeAs(inc, tables),
                     on |-> QualifiedRef(tables[this], assoc.foreignKey) \o <<Tok("=")>>
                            \o QualifiedRef(IncludeAs(inc, tables), primaryKey) ] >> ]

\* the JOIN clauses of one include: [err, sql, joins]
JoinOf(this, inc, assoc, tables) ==
    LET as == IncludeAs(inc, tables)
        mainAlias == tables[this]
        joinType == IF inc.required THEN "INNER JOIN" ELSE "LEFT OUTER JOIN"
        JoinText(table, alias, on) ==
            <<Tok(joinType)>> \o TableRef(table) \o <<Tok("AS")>> \o Quoted(alias)
            \o <<Tok("ON")>> \o on
        JoinPart(table, alias, on) ==
            [type |-> joinType, table |-> table, as |-> alias, on |-> on]
    IN
    IF assoc.type = "belongsTo" THEN
        LET on == QualifiedRef(mainAlias, assoc.foreignKey) \o <<Tok("=")>>
                  \o QualifiedRef(as, primaryKey)
        IN  [ err |-> "", sql |-> JoinText(tables[inc.model], as, on),
              joins |-> <<JoinPart(tables[inc.model], as, on)>> ]
    ELSE IF assoc.type = "hasOne" \/ assoc.type = "hasMany" THEN
        LET on == QualifiedRef(mainAlias, primaryKey) \o <<Tok("=")>>
                  \o QualifiedRef(as, assoc.foreignKey)
        IN  [ err |-> "", sql |-> JoinText(tables[inc.model], as, on),
              joins |-> <<JoinPart(tables[inc.model], as, on)>> ]
    ELSE IF assoc.through = "none" \/ assoc.otherKey = <<>> THEN
        [ err |-> "Through model and otherKey required for belongsToMany",
          sql |-> <<>>, joins |-> <<>> ]
    ELSE
        LET throughAs == as \o <<"_", "t", "h", "r", "o", "u", "g", "h">>
            throughTable == tables[assoc.through]
            on1 == QualifiedRef(mainAlias, primaryKey) \o <<Tok("=")>>
                   \o QualifiedRef(throughAs, assoc.foreignKey)
            on2 == QualifiedRef(throughAs, assoc.otherKey) \o <<Tok("=")>>
                   \o QualifiedRef(as, primaryKey)
        IN  [ err |-> "",
              sql |-> JoinText(throughTable, throughAs, on1)
                      \o JoinText(tables[inc.model], as, on2),
              joins |-> << JoinPart(throughTable, throughAs, on1),
                           JoinPart(tables[inc.model], as, on2) >> ]

\* the Association the include names, when there is one
FoundAssociation(reg, as, model) ==
    reg[CHOOSE k \in FindAssociation(reg, as, model) : TRUE]

\* one pass of the loop body past the lookup: j the JOIN clauses, w the
\* compiled filter of the include
IncludeStep(st, inc, as, j, w) ==
    IF j.err # "" THEN [st EXCEPT !.err = j.err]
    ELSE [ err |-> "",
           sql |-> st.sql \o j.sql,
           joins |-> st.joins \o j.joins,
           params |-> IF inc.where.nil THEN st.params
                      ELSE Assign(st.params, w.params),
           whereClauses |->
               IF inc.where.nil THEN st.whereClauses
               ELSE Append(st.whereClauses, prefixedClause(w.clause, as)) ]

RECURSIVE IncludeLoop(_, _, _, _, _)
\* for (const inc of options.include): st is [err, sql, joins, params, whereClauses]
IncludeLoop(this, include, i, st, m) ==
    IF i > Len(include) \/ st.err # "" THEN st
    ELSE IF FindAssociation(AssociationsOf(m.associations, this),
                            IncludeAs(include[i], m.tableName),
                            include[i].model) = {}
    THEN [st EXCEPT !.err = "Association not found"]
    ELSE IncludeLoop(this, include, i + 1,
             IncludeStep(st, include[i], IncludeAs(include[i], m.tableName),
                 JoinOf(this, include[i],
                        FoundAssociation(AssociationsOf(m.associations, this),
                                         IncludeAs(include[i], m.tableName),
                                         include[i].model),
                        m.tableName),
                 buildWhereClause(include[i].where, EmptyMap, 0)),
             m)

\* the SELECT list: [text, cols], cols the columns as [as, field, out]
SelectItem(as, field) ==
    [ text |-> QualifiedRef(as, field) \o <<Tok("AS")>>
               \o Quoted(as \o <<"_">> \o field),
      col |-> [as |-> as, field |-> field, out |-> as \o <<"_">> \o field] ]

\* the SELECT items of one include
IncludeItems(inc, m) ==
    LET fields == OrElse(inc.attributes, m.attributes[inc.model])
    IN  [k \in 1..Len(fields) |-> SelectItem(IncludeAs(inc, m.tableName), fields[k])]

SelectItems(this, options, m) ==
    LET mainAlias == m.tableName[this]
        mainAttributes == OrElse(options.attributes, m.attributes[this])
    IN  [k \in 1..Len(mainAttributes) |-> SelectItem(mainAlias, mainAttributes[k])]
        \o Flatten([i \in 1..Len(options.include) |->
                       IncludeItems(options.include[i], m)])

\* COUNT(DISTINCT table.primaryKey) AS count: the selectOverride of count
CountSelect(this, tables) ==
    <<Tok("COUNT"), Tok("("), Tok("DISTINCT")>>
    \o QualifiedRef(tables[this], primaryKey)
    \o <<Tok(")"), Tok("AS"), Id(<<"c", "o", "u", "n", "t">>)>>

\* [mainWhere, ...whereClauses].filter((c) => c).join(" AND ")
WhereText(mainWhere, whereClauses) ==
    Join(SelectSeq(<<mainWhere>> \o whereClauses, LAMBDA c : c # <<>>),
         <<Tok("AND")>>)

GroupText(group) ==
    IF group = <<>> THEN <<>>
    ELSE <<Tok("GROUP BY")>>
         \o Join([k \in 1..Len(group) |-> Quoted(group[k])], <<Tok(",")>>)

OrderText(order) ==
    IF order = <<>> THEN <<>>
    ELSE <<Tok("ORDER BY")>>
         \o Join([k \in 1..Len(order) |->
                     Quoted(order[k][1]) \o <<Tok(order[k][2])>>], <<Tok(",")>>)

\* if (options.limit), if (options.offset): undefined and 0 are falsy
Truthy(n) == n # Undefined /\ n # 0

\* the statement from its parts: st the outcome of the include loop,
\* whereClause the text of the WHERE, items the SELECT list
Assemble(this, options, selectOverride, m, st, whereClause, params, items) ==
    IF st.err # "" THEN
        [ err |-> st.err, sql |-> <<>>, params |-> EmptyMap, from |-> <<>>,
          as |-> <<>>, joins |-> <<>>, where |-> <<>>, select |-> <<>>,
          count |-> FALSE, limit |-> Undefined, offset |-> Undefined ]
    ELSE
        [ err |-> "",
          sql |-> <<Tok("SELECT")>>
                  \o (IF selectOverride # <<>> THEN selectOverride
                      ELSE Join([k \in 1..Len(items) |-> items[k].text],
                                <<Tok(",")>>))
                  \o st.sql
                  \o (IF whereClause # <<>> THEN <<Tok("WHERE")>> \o whereClause
                      ELSE <<>>)
                  \o GroupText(options.group) \o OrderText(options.order)
                  \o (IF Truthy(options.limit)
                      THEN <<Tok("LIMIT"), Lit(options.limit)>> ELSE <<>>)
                  \o (IF Truthy(options.offset)
                      THEN <<Tok("OFFSET"), Lit(options.offset)>> ELSE <<>>),
          params |-> params,
          from |-> m.tableName[this],
          as |-> m.tableName[this],
          joins |-> st.joins,
          where |-> whereClause,
          select |-> IF selectOverride # <<>> THEN <<>>
                     ELSE [k \in 1..Len(items) |-> items[k].col],
          count |-> selectOverride # <<>>,
          limit |-> IF Truthy(options.limit) THEN options.limit ELSE Undefined,
          offset |-> IF Truthy(options.offset) THEN options.offset ELSE Undefined ]

\* the root filter joins what the include loop left: st the outcome of the
\* loop, main the compiled options.where
WithMain(this, options, selectOverride, m, st, main) ==
    Assemble(this, options, selectOverride, m, st,
             WhereText(IF options.where.nil THEN <<>> ELSE main.clause,
                       st.whereClauses),
             IF options.where.nil THEN st.params
             ELSE Assign(st.params, main.params),
             SelectItems(this, options, m))

\* m is the state of the model classes: [tableName, attributes, associations];
\* selectOverride is <<>> (none) or the text to select
buildSelectQuery(this, options, selectOverride, m) ==
    WithMain(this, options, selectOverride, m,
        IncludeLoop(this, options.include, 1,
            [ err |-> "",
              sql |-> <<Tok("FROM")>> \o TableRef(m.tableName[this])
                      \o <<Tok("AS")>> \o Quoted(m.tableName[this]),
              joins |-> <<>>, params |-> EmptyMap, whereClauses |-> <<>> ], m),
        buildWhereClause(options.where, EmptyMap, 0))

----------------------------------------------------------------------------
(* The execution engine's reading of a boolean expression: SQL grammar,    *)
(* precedence (AND binds tighter than OR) and three-valued logic.          *)
(*                                                                         *)
(*   expr ::= conj { OR conj }      conj ::= prim { AND prim }             *)
(*   prim ::= ( expr ) | ref cmp @param | ref cmp ref                      *)
(*          | ref IN ( @param {, @param} )                                 *)
(*   ref  ::= [ alias . ] column        (either part delimited or bare)    *)
(*                                                                         *)
(* ctx is [params, env]: the bindings sent with the statement, and the     *)
(* row under test as a sequence of [as, cols, row, isNull], one per table  *)
(* alias in scope (cols its columns, row the values, a column without a    *)
(* value being NULL; isNull for the NULL row of an outer join).  The       *)
(* outcome is "T", "F", "N" (NULL) or "ERR" (the engine rejects the        *)
(* statement).                                                             *)

CmpOps == {"=", "!=", ">", ">=", "<", "<="}

Cmp(op, x, y) ==
    IF x = Undefined \/ y = Undefined THEN "N"
    ELSE LET b == CASE op = "="  -> x = y
                   [] op = "!=" -> x # y
                   [] op = ">"  -> x > y
                   [] op = ">=" -> x >= y
                   [] op = "<"  -> x < y
                   [] OTHER     -> x <= y
         IN  IF b THEN "T" ELSE "F"

And3(x, y) ==
    IF x = "ERR" \/ y = "ERR" THEN "ERR"
    ELSE IF x = "F" \/ y = "F" THEN "F"
    ELSE IF x = "N" \/ y = "N" THEN "N"
    ELSE "T"

Or3(x, y) ==
    IF x = "ERR" \/ y = "ERR" THEN "ERR"
    ELSE IF x = "T" \/ y = "T" THEN "T"
    ELSE IF x = "N" \/ y = "N" THEN "N"
    ELSE "F"

Fail == [v |-> "ERR", p |-> 0]
BadRef == [ok |-> FALSE, as |-> <<>>, col |-> <<>>, p |-> 0]

Is(t, p, k) == p >= 1 /\ p <= Len(t) /\ t[p].k = k

\* a name at p, delimited or bare: [ok, name, p]
NameAt(t, p) ==
    IF Is(t, p, "BQ") /\ Is(t, p + 1, "id") /\ Is(t, p + 2, "BQ")
    THEN [ok |-> TRUE, name |-> t[p + 1].s, p |-> p + 3]
    ELSE IF Is(t, p, "id") THEN [ok |-> TRUE, name |-> t[p].s, p |-> p + 1]
    ELSE [ok |-> FALSE, name |-> <<>>, p |-> 0]

\* alias a, then . and the column c
QualifiedName(a, c) ==
    IF c.ok THEN [ok |-> TRUE, as |-> a.name, col |-> c.name, p |-> c.p] ELSE BadRef

\* the reference that starts with the name a
RefFrom(t, a) ==
    IF ~a.ok THEN BadRef
    ELSE IF Is(t, a.p, ".") THEN QualifiedName(a, NameAt(t, a.p + 1))
    ELSE [ok |-> TRUE, as |-> <<>>, col |-> a.name, p |-> a.p]

\* a column reference at p: [ok, as, col, p], as = <<>> when unqualified
RefAt(t, p) == RefFrom(t, NameAt(t, p))

\* the tables in scope that a reference can mean
Candidates(env, ref) ==
    {i \in 1..Len(env) :
        /\ ref.col \in env[i].cols
        /\ (ref.as = <<>> \/ env[i].as = ref.as)}

ValueIn(scope, col) ==
    IF scope.isNull \/ col \notin DOMAIN scope.row THEN Undefined ELSE scope.row[col]

ResolveAmong(env, ref, cand) ==
    IF Cardinality(cand) # 1 THEN [ok |-> FALSE, v |-> Undefined]
    ELSE [ok |-> TRUE, v |-> ValueIn(env[CHOOSE i \in cand : TRUE], ref.col)]

\* the value of a column reference in the row: the name must belong to
\* exactly one table in scope
Resolve(env, ref) ==
    IF ref.ok THEN ResolveAmong(env, ref, Candidates(env, ref))
    ELSE [ok |-> FALSE, v |-> Undefined]

RECURSIVE InList(_, _, _, _, _)
\* @param {, @param} ) from p on, for the value x: acc is the result so far
InList(t, p, ctx, x, acc) ==
    IF ~(Is(t, p, "param") /\ t[p] \in DOMAIN ctx.params) THEN Fail
    ELSE IF Is(t, p + 1, ",")
    THEN InList(t, p + 2, ctx, x, Or3(acc, Cmp("=", x, ctx.params[t[p]])))
    ELSE IF Is(t, p + 1, ")")
    THEN [v |-> Or3(acc, Cmp("=", x, ctx.params[t[p]])), p |-> p + 2]
    ELSE Fail

\* x cmp y, y the value of the reference ref2
CompareRefs(op, x, y, ref2) ==
    IF y.ok THEN [v |-> Cmp(op, x.v, y.v), p |-> ref2.p] ELSE Fail

\* what follows a reference whose value is x, from p on
Comparison(t, p, ctx, x) ==
    IF ~x.ok THEN Fail
    ELSE IF Is(t, p, "IN") /\ Is(t, p + 1, "(")
    THEN InList(t, p + 2, ctx, x.v, "F")
    ELSE IF ~(p + 1 <= Len(t) /\ t[p].k \in CmpOps) THEN Fail
    ELSE IF t[p + 1].k \in {"param", "set"}
    THEN IF t[p + 1] \in DOMAIN ctx.params
         THEN [v |-> Cmp(t[p].k, x.v, ctx.params[t[p + 1]]), p |-> p + 2]
         ELSE Fail
    ELSE CompareRefs(t[p].k, x, Resolve(ctx.env, RefAt(t, p + 1)), RefAt(t, p + 1))

\* the comparison that starts with the reference ref
FromRef(t, ctx, ref) ==
    IF ref.ok THEN Comparison(t, ref.p, ctx, Resolve(ctx.env, ref)) ELSE Fail

\* r, the expression inside parentheses, then )
Closed(t, r) ==
    IF r.v # "ERR" /\ Is(t, r.p, ")") THEN [v |-> r.v, p |-> r.p + 1] ELSE Fail

AndStep(acc, r) == [v |-> And3(acc.v, r.v), p |-> r.p]
OrStep(acc, r) == [v |-> Or3(acc.v, r.v), p |-> r.p]

RECURSIVE EvalOr(_, _, _)
RECURSIVE EvalAnd(_, _, _)
RECURSIVE EvalPrim(_, _, _)
RECURSIVE OrRest(_, _, _)
RECURSIVE AndRest(_, _, _)

EvalPrim(t, p, ctx) ==
    IF Is(t, p, "(") THEN Closed(t, EvalOr(t, p + 1, ctx))
    ELSE FromRef(t, ctx, RefAt(t, p))

AndRest(t, acc, ctx) ==
    IF acc.v # "ERR" /\ Is(t, acc.p, "AND")
    THEN AndRest(t, AndStep(acc, EvalPrim(t, acc.p + 1, ctx)), ctx)
    ELSE acc

EvalAnd(t, p, ctx) == AndRest(t, EvalPrim(t, p, ctx), ctx)

OrRest(t, acc, ctx) ==
    IF acc.v # "ERR" /\ Is(t, acc.p, "OR")
    THEN OrRest(t, OrStep(acc, EvalAnd(t, acc.p + 1, ctx)), ctx)
    ELSE acc

EvalOr(t, p, ctx) == OrRest(t, EvalAnd(t, p, ctx), ctx)

\* r, read from the start of t, is the whole of t
Whole(t, r) == IF r.v # "ERR" /\ r.p = Len(t) + 1 THEN r.v ELSE "ERR"

\* the whole of t as one expression
EvalExpr(t, ctx) == Whole(t, EvalOr(t, 1, ctx))

----------------------------------------------------------------------------
(* The execution engine: bigquery.query({query, params}) on a SELECT       *)
(* statement, over the tables of db.  The table of a model class has the   *)
(* columns of its attributes (sync creates it from them).  Rows come back  *)
(* in the order of the root table, then of each joined table.              *)

ClassOfTable(tables, name) == CHOOSE c \in Classes : tables[c] = name

Scope(as, c, row, isNull, m) ==
    [as |-> as, cols |-> Range(m.attributes[c]), row |-> row, isNull |-> isNull]

NullRow == EmptyMap

\* env with a row of the table of j, the model class c, put in scope
Joined(env, j, c, row, isNull, m) == Append(env, Scope(j.as, c, row, isNull, m))

\* the rows of c that the ON condition of j joins to env
Hits(env, j, c, m, data) ==
    SelectSeq(data[c], LAMBDA r :
        EvalExpr(j.on, [params |-> EmptyMap,
                        env |-> Joined(env, j, c, r, FALSE, m)]) = "T")

\* one joined row per hit, or the NULL row when an outer join finds none
JoinedRows(env, j, c, m, hits) ==
    IF hits # <<>>
    THEN [k \in 1..Len(hits) |-> Joined(env, j, c, hits[k], FALSE, m)]
    ELSE IF j.type = "LEFT OUTER JOIN"
    THEN << Joined(env, j, c, NullRow, TRUE, m) >>
    ELSE <<>>

\* the rows of env joined with the table of j
JoinOne(env, j, m, data) ==
    JoinedRows(env, j, ClassOfTable(m.tableName, j.table), m,
               Hits(env, j, ClassOfTable(m.tableName, j.table), m, data))

RECURSIVE JoinAll(_, _, _, _, _)
JoinAll(envs, joins, k, m, data) ==
    IF k > Len(joins) THEN envs
    ELSE JoinAll(Flatten([i \in 1..Len(envs) |-> JoinOne(envs[i], joins[k], m, data)]),
                 joins, k + 1, m, data)

\* the scope of the statement with every row NULL: what the engine analyses
\* the statement against before it reads a row
NullScope(stmt, m) ==
    << Scope(stmt.as, ClassOfTable(m.tableName, stmt.from), NullRow, TRUE, m) >>
    \o [k \in 1..Len(stmt.joins) |->
           Scope(stmt.joins[k].as, ClassOfTable(m.tableName, stmt.joins[k].table),
                 NullRow, TRUE, m)]

\* scope is the scope of the statement with every row NULL; OFFSET is
\* part of the LIMIT clause and cannot stand without it
AcceptsIn(stmt, scope) ==
    /\ stmt.offset # Undefined => stmt.limit # Undefined
    /\ \A k \in 1..Len(stmt.joins) :
           EvalExpr(stmt.joins[k].on,
                    [params |-> EmptyMap, env |-> SubSeq(scope, 1, k + 1)]) # "ERR"
    /\ stmt.where = <<>>
       \/ EvalExpr(stmt.where, [params |-> stmt.params, env |-> scope]) # "ERR"
    /\ \A k \in 1..Len(stmt.select) :
           Resolve(scope, [ok |-> TRUE, as |-> stmt.select[k].as,
                           col |-> stmt.select[k].field]).ok

\* whether the engine accepts the statement: every ON and the WHERE are
\* expressions over the tables in scope, every selected column exists
Accepts(stmt, m) == AcceptsIn(stmt, NullScope(stmt, m))

\* the last column of select with the out name o
LastNamed(select, o) ==
    CHOOSE k \in 1..Len(select) :
        /\ select[k].out = o
        /\ \A k2 \in (k + 1)..Len(select) : select[k2].out # o

ColumnValue(env, item) ==
    Resolve(env, [ok |-> TRUE, as |-> item.as, col |-> item.field]).v

\* one result row: out name -> value (of two columns with one out name, the
\* later)
Project(env, select) ==
    [o \in {select[k].out : k \in 1..Len(select)} |->
        ColumnValue(env, select[LastNamed(select, o)])]

CountKey == <<"c", "o", "u", "n", "t">>

\* LIMIT and OFFSET
Window(rows, limit, offset) ==
    SubSeq(rows,
           IF offset = Undefined THEN 1 ELSE offset + 1,
           IF limit = Undefined THEN Len(rows)
           ELSE IF offset = Undefined THEN IF limit < Len(rows) THEN limit ELSE Len(rows)
           ELSE IF offset + limit < Len(rows) THEN offset + limit ELSE Len(rows))

\* the rows of the root table, each a scope of its own
BaseRows(stmt, c, m, data) ==
    [i \in 1..Len(data[c]) |-> << Scope(stmt.as, c, data[c][i], FALSE, m) >>]

\* the joined rows the WHERE keeps
Kept(stmt, joined) ==
    SelectSeq(joined, LAMBDA env :
        stmt.where = <<>>
        \/ EvalExpr(stmt.where, [params |-> stmt.params, env |-> env]) = "T")

\* COUNT(DISTINCT table.primaryKey): NULL is not counted
DistinctKeys(stmt, kept) ==
    {Resolve(kept[i], [ok |-> TRUE, as |-> stmt.as, col |-> primaryKey]).v :
        i \in 1..Len(kept)} \ {Undefined}

Answer(stmt, kept) ==
    IF stmt.count
    THEN << (CountKey :> Cardinality(DistinctKeys(stmt, kept))) >>
    ELSE [i \in 1..Len(kept) |-> Project(kept[i], stmt.select)]

\* the condition of the engine, kept with its tables: "none" when it works,
\* "rejects" when it fails a request without running it, "loses" when it
\* runs the statement and fails while the answer is awaited, "streaming"
\* when it refuses an UPDATE or DELETE over rows of the streaming buffer
Fault(data) == IF "fault" \in DOMAIN data THEN data.fault ELSE "none"

Faults == {"none", "rejects", "loses", "streaming"}

StreamingError == "UPDATE or DELETE statement over table would affect rows in the streaming buffer"

EngineFailure == "Engine failure"

\* [err, rows]
Query(stmt, m, data) ==
    IF Fault(data) \in {"rejects", "loses"} THEN [err |-> EngineFailure, rows |-> <<>>]
    ELSE IF ~Accepts(stmt, m) THEN [err |-> "Engine error", rows |-> <<>>]
    ELSE [ err |-> "",
           rows |-> Window(Answer(stmt,
                               Kept(stmt,
                                   JoinAll(BaseRows(stmt,
                                               ClassOfTable(m.tableName, stmt.from),
                                               m, data),
                                           stmt.joins, 1, m, data))),
                           stmt.limit, stmt.offset) ]

----------------------------------------------------------------------------
(* src/model.ts nestAssociations                                           *)
(*                                                                         *)
(* An object of the result is a function from keys to cells [t, v, items]: *)
(* a value (t = "val", v; null and undefined are Undefined), a nested      *)
(* object (t = "obj", items = <<child>>) or an array of them (t = "list"). *)
(* A child is a function from its fields to values.                        *)

ValCell(v) == [t |-> "val", v |-> v, items |-> <<>>]
ObjCell(child) == [t |-> "obj", v |-> Undefined, items |-> <<child>>]
ListCell(items) == [t |-> "list", v |-> Undefined, items |-> items]

\* row[key]
RowGet(row, key) == IF key \in DOMAIN row THEN row[key] ELSE Undefined

\* key.startsWith(prefix)
StartsWith(key, prefix) ==
    Len(key) >= Len(prefix) /\ SubSeq(key, 1, Len(prefix)) = prefix

\* the rows without includes: every key that starts with tableName_, the
\* prefix taken off
FlatObject(row, prefix) ==
    [f \in {SubSeq(k, Len(prefix) + 1, Len(k)) : k \in {k \in DOMAIN row : StartsWith(k, prefix)}}
        |-> ValCell(row[prefix \o f])]

\* Object.values(this.associations).find((a) => a.as === as)
FindByAlias(reg, as) == {k \in DOMAIN reg : reg[k].as = as}

\* every kind but belongsTo taken for a sequence
ManyButBelongsTo(assoc) == assoc.type # "belongsTo"

IsMany(assoc) == assoc.type = "hasMany" \/ assoc.type = "belongsToMany"

\* the parent made at the first row of its primary key
NewParent(this, row, includes, m) ==
    LET prefix == m.tableName[this] \o <<"_">>
        fields == Range(m.attributes[this])
        Known(i) == FindByAlias(AssociationsOf(m.associations, this),
                                IncludeAs(includes[i], m.tableName)) # {}
        incKeys == {IncludeAs(includes[i], m.tableName) :
                      i \in {i \in 1..Len(includes) : Known(i)}}
    IN  [k \in fields \cup incKeys |->
            IF k \in incKeys
            THEN IF IsMany(m.associations[k]) THEN ListCell(<<>>) ELSE ValCell(Undefined)
            ELSE ValCell(RowGet(row, prefix \o k))]

\* no child is ever found in the sequence
NoChildYet(items, childPK) == FALSE

\* parent[as].some((c) => c[inc.model.primaryKey] === childPK)
HasChild(items, childPK) == \E c \in Range(items) : RowGet(c, primaryKey) = childPK

RECURSIVE AttachChildren(_, _, _, _, _)
\* for (const inc of includes): the children of one row put on its parent
AttachChildren(parent, row, includes, i, m) ==
    IF i > Len(includes) THEN parent
    ELSE
        LET inc == includes[i]
            as == IncludeAs(inc, m.tableName)
            found == FindByAlias(m.associations, as)
            childPK == RowGet(row, as \o <<"_">> \o primaryKey)
            child == [f \in Range(m.attributes[inc.model]) |->
                         RowGet(row, as \o <<"_">> \o f)]
        IN
        IF found = {} \/ childPK = Undefined
        THEN AttachChildren(parent, row, includes, i + 1, m)
        ELSE IF IsMany(m.associations[as])
        THEN IF HasChild(parent[as].items, childPK)
             THEN AttachChildren(parent, row, includes, i + 1, m)
             ELSE AttachChildren(
                      [parent EXCEPT ![as] = ListCell(Append(parent[as].items, child))],
                      row, includes, i + 1, m)
        ELSE AttachChildren(Assign(parent, (as :> ObjCell(child))),
                            row, includes, i + 1, m)

RECURSIVE NestRows(_, _, _, _, _, _)
\* for (const row of rows): parentMap is the sequence of [key, obj] in
\* insertion order
NestRows(this, rows, i, includes, parentMap, m) ==
    IF i > Len(rows) THEN parentMap
    ELSE
        LET row == rows[i]
            parentPKValue == RowGet(row, m.tableName[this] \o <<"_">> \o primaryKey)
            at == {k \in 1..Len(parentMap) : parentMap[k].key = parentPKValue}
        IN
        IF parentPKValue = Undefined
        THEN NestRows(this, rows, i + 1, includes, parentMap, m)
        ELSE IF at = {}
        THEN NestRows(this, rows, i + 1, includes,
                 Append(parentMap,
                        [key |-> parentPKValue,
                         obj |-> AttachChildren(NewParent(this, row, includes, m),
                                                row, includes, 1, m)]),
                 m)
        ELSE LET k == CHOOSE k \in at : TRUE
             IN  NestRows(this, rows, i + 1, includes,
                     [parentMap EXCEPT ![k].obj =
                         AttachChildren(@, row, includes, 1, m)],
                     m)

\* the values of the map, the last inserted first
ValuesReversed(parentMap) ==
    [k \in 1..Len(parentMap) |-> parentMap[Len(parentMap) + 1 - k].obj]

\* Array.from(parentMap.values())
MapValues(parentMap) == [k \in 1..Len(parentMap) |-> parentMap[k].obj]

nestAssociations(this, rows, includes, m) ==
    IF Len(includes) = 0
    THEN [i \in 1..Len(rows) |-> FlatObject(rows[i], m.tableName[this] \o <<"_">>)]
    ELSE MapValues(NestRows(this, rows, 1, includes, <<>>, m))

----------------------------------------------------------------------------
(* The filter trees the calls are given: every tree of weight at most      *)
(* MaxWeight over two columns, two values and three operator keys, one of  *)
(* them ("regexp") not a key of Op.  A scalar leaf weighs 1, an array or   *)
(* operator object 1 plus its length, a combinator 1 plus its children, an *)
(* empty child counting 1.                                                 *)

Cols == {<<"a">>, <<"b">>}
InputOps == {"gt", "ne", "regexp"}

OpEntries == [op : InputOps, val : Vals]

OpSeqs(n) ==
    {s \in [1..n -> OpEntries] : \A i, j \in 1..n : i # j => s[i].op # s[j].op}

LeavesW(w) ==
    (IF w = 1 THEN {ScalarEnt(c, v) : c \in Cols, v \in Vals} ELSE {})
    \cup {ArrayEnt(c, vs) : c \in Cols, vs \in [1..(w - 1) -> Vals]}
    \cup {ObjectEnt(c, ops) : c \in Cols, ops \in OpSeqs(w - 1)}

RECURSIVE EntSeqsW(_)
RECURSIVE KidsW(_)

EntsW(w) ==
    LeavesW(w) \cup {TreesEnt(k, kids) : k \in {AndKey, OrKey}, kids \in KidsW(w - 1)}

\* the entry lists of weight w; the keys of an object are pairwise distinct
EntSeqsW(w) ==
    IF w = 0 THEN {<<>>}
    ELSE UNION { { q \in { <<e>> \o r : e \in EntsW(k), r \in EntSeqsW(w - k) } :
                     \A i \in 2..Len(q) : q[i].key # q[1].key } :
                 k \in 1..w }

\* the child lists of weight w
KidsW(w) ==
    IF w = 0 THEN {<<>>}
    ELSE UNION { { <<Obj(o)>> \o ks :
                     o \in (IF k = 1 THEN EntSeqsW(0) ELSE {}) \cup EntSeqsW(k),
                     ks \in KidsW(w - k) } :
                 k \in 1..w }

Trees == {NoWhere} \cup UNION { {Obj(o) : o \in EntSeqsW(w)} : w \in 0..MaxWeight }

----------------------------------------------------------------------------
(* src/bigQueryORM.ts runMigrations                                        *)
(*                                                                         *)
(* A file of the directory is [base, ext]: its name is base.ext, the bases *)
(* being numbers as in 001-create-users. The meta dataset and its          *)
(* migrations table are one store, [exists, rows], a row being             *)
(* [name, executed_at]. A call is followed from one await to the next:     *)
(* pc is "exists" while the existence of the store is awaited, "create"    *)
(* before it is created when it was not seen, "query" while the executed   *)
(* names are read, "up" and "insert" inside the loop, "done" at the end.   *)

Exts == {"js", "md", "ts"}

File(base, ext) == [base |-> base, ext |-> ext]

\* f.endsWith(".ts") || f.endsWith(".js")
IsMigrationFile(f) == f.ext = "ts" \/ f.ext = "js"

\* path.basename(file, path.extname(file))
migrationName(f) == f.base

ExtRank(ext) == CASE ext = "js" -> 1 [] ext = "md" -> 2 [] OTHER -> 3

\* the order of Array.prototype.sort on file names
Before(f, g) == f.base < g.base \/ (f.base = g.base /\ ExtRank(f.ext) < ExtRank(g.ext))

First(S) == CHOOSE f \in S : \A g \in S \ {f} : Before(f, g)

RECURSIVE Sorted(_)
Sorted(S) == IF S = {} THEN <<>> ELSE <<First(S)>> \o Sorted(S \ {First(S)})

\* fs.readdirSync(migrationsPath).filter(...), then sort()
migrationFiles(d) == Sorted({f \in d : IsMigrationFile(f)})

\* new Set(rows.map((r) => r.name))
Executed(rows) == {rows[i].name : i \in 1..Len(rows)}

IsPending(f, executed) == migrationName(f) \notin executed

\* the files the loop does not skip: if (executed.has(migrationName)) continue
Pending(d, executed) ==
    SelectSeq(migrationFiles(d), LAMBDA f : IsPending(f, executed))

Idle ==
    [ pc |-> "idle", calls |-> 0, seen |-> FALSE, listed |-> {}, todo |-> <<>>,
      ran |-> <<>>, status |-> "none" ]

NoMigrations ==
    /\ dir = {}
    /\ meta = [exists |-> FALSE, rows |-> <<>>]
    /\ runs = <<Idle, Idle>>
    /\ ups = EmptyMap
    /\ ended = <<>>

\* the call of caller r ends: status is "ok", or the error thrown
Ends(r, status) == [runs EXCEPT ![r].pc = "done", ![r].status = status]

\* runMigrations(migrationsPath) is called: it awaits exists()
BeginRun(r) ==
    /\ runs[r].pc \in {"idle", "done"}
    /\ runs' = [runs EXCEPT ![r] = [ pc |-> "exists", calls |-> @.calls + 1,
                                       seen |-> FALSE, listed |-> {}, todo |-> <<>>,
                                       ran |-> <<>>, status |-> "none" ]]
    /\ UNCHANGED <<dir, meta, ups>>

\* [exists] = await ...exists()
SeeMeta(r) ==
    /\ runs[r].pc = "exists"
    /\ runs' = [runs EXCEPT ![r].seen = meta.exists,
                            ![r].pc = IF meta.exists THEN "query" ELSE "create"]
    /\ UNCHANGED <<dir, meta, ups>>

\* if (!exists) await ...create(...): the engine refuses to create what
\* exists by now
CreateMeta(r) ==
    /\ runs[r].pc = "create"
    /\ IF meta.exists
       THEN /\ runs' = Ends(r, "Already Exists")
            /\ UNCHANGED meta
       ELSE /\ meta' = [exists |-> TRUE, rows |-> <<>>]
            /\ runs' = [runs EXCEPT ![r].pc = "query"]
    /\ UNCHANGED <<dir, ups>>

\* the call that has todo left to do goes on to the up of its first file,
\* and ends when nothing is left
Continue(r, todo) ==
    IF todo = <<>>
    THEN [runs EXCEPT ![r].pc = "done", ![r].status = "ok", ![r].todo = <<>>]
    ELSE [runs EXCEPT ![r].pc = "up", ![r].todo = todo]

\* the SELECT of the executed names answers; the directory is read and
\* sorted, and the loop skips to the first file whose name is not executed
ListPending(r) ==
    /\ runs[r].pc = "query"
    /\ runs' = [Continue(r, Pending(dir, Executed(meta.rows)))
                   EXCEPT ![r].listed = {f \in dir : IsMigrationFile(f)}]
    /\ UNCHANGED <<dir, meta, ups>>

NeverUp == [invoked |-> 0, completed |-> 0]

UpsOf(history, f) == IF f \in DOMAIN history THEN history[f] ELSE NeverUp

\* the up of file f invoked, and completed or not
Invoked(history, f, completes) ==
    Assign(history,
           f :> [ invoked |-> UpsOf(history, f).invoked + 1,
                  completed |-> UpsOf(history, f).completed
                                   + (IF completes THEN 1 ELSE 0) ])

\* a loop that catches what an up throws and goes on to the next file
InvokeUpCaught(r) ==
    /\ runs[r].pc = "up"
    /\ \E completes \in BOOLEAN :
           /\ ups' = Invoked(ups, Head(runs[r].todo), completes)
           /\ runs' = IF completes
                      THEN [runs EXCEPT ![r].pc = "insert",
                                        ![r].ran = Append(@, Head(runs[r].todo))]
                      ELSE [Continue(r, Tail(runs[r].todo)) EXCEPT
                               ![r].ran = Append(@, Head(runs[r].todo))]
    /\ UNCHANGED <<dir, meta>>

\* await migration.up(this.queryInterface, this): the up of the migration
\* is the application's; it completes, or it throws and the call ends
InvokeUp(r) ==
    /\ runs[r].pc = "up"
    /\ \E completes \in BOOLEAN :
           /\ ups' = Invoked(ups, Head(runs[r].todo), completes)
           /\ runs' = IF completes
                      THEN [runs EXCEPT ![r].pc = "insert",
                                        ![r].ran = Append(@, Head(runs[r].todo))]
                      ELSE [Ends(r, "up threw") EXCEPT
                               ![r].ran = Append(@, Head(runs[r].todo))]
    /\ UNCHANGED <<dir, meta>>

\* { name: migrationName, executed_at: new Date() }: the time is the
\* number of the row
NewRow(rows, f) == [name |-> migrationName(f), executed_at |-> Len(rows) + 1]

\* await metaTable.insert([...]): the row is inserted and the loop goes
\* on to the next file whose name was not executed, or the engine fails
\* the insert and the call ends
RecordMigration(r) ==
    /\ runs[r].pc = "insert"
    /\ \/ /\ meta' = [meta EXCEPT !.rows = Append(@, NewRow(@, Head(runs[r].todo)))]
          /\ runs' = Continue(r, Tail(runs[r].todo))
       \/ /\ runs' = Ends(r, EngineFailure)
          /\ UNCHANGED meta
    /\ UNCHANGED <<dir, ups>>

\* one step of the runMigrations call of caller r
runMigrations(r) ==
    /\ \/ BeginRun(r)
       \/ SeeMeta(r)
       \/ CreateMeta(r)
       \/ ListPending(r)
       \/ InvokeUp(r)
       \/ RecordMigration(r)
    /\ UNCHANGED <<compilerVars, modelVars, db, call, ret, sent, flights>>

----------------------------------------------------------------------------
(* src/bigQueryORM.ts revertLastMigration                                  *)
(*                                                                         *)
(* The call of a caller is at "latest" while the SELECT of the latest      *)
(* record is awaited, at "down" and "delete" after it, "done" at the end;  *)
(* todo holds the file found for the record, ran the file whose down was   *)
(* invoked.                                                                *)

NotFound == "Not found: Table migrations"
FileNotFound == "Migration file not found"
DownThrew == "down threw"

\* ORDER BY executed_at ASC LIMIT 1: the rows no row is earlier than
Earliest(rows) ==
    {i \in 1..Len(rows) : \A j \in 1..Len(rows) : rows[i].executed_at <= rows[j].executed_at}

\* ORDER BY executed_at DESC LIMIT 1: the rows no row is later than
Latest(rows) ==
    {i \in 1..Len(rows) : \A j \in 1..Len(rows) : rows[j].executed_at <= rows[i].executed_at}

\* the files migrationFiles.find(...) may return for the name: the first
\* match in the order of readdirSync, which is the file system's
FilesNamed(d, name) == {f \in d : IsMigrationFile(f) /\ migrationName(f) = name}

\* revertLastMigration(migrationsPath) is called: it awaits the SELECT
BeginRevert(r) ==
    /\ runs[r].pc \in {"idle", "done"}
    /\ runs' = [runs EXCEPT ![r] = [ pc |-> "latest", calls |-> @.calls + 1,
                                       seen |-> FALSE, listed |-> {}, todo |-> <<>>,
                                       ran |-> <<>>, status |-> "none" ]]
    /\ UNCHANGED <<dir, meta, ups>>

\* the file of the record named name is looked up: the call throws when
\* there is none, and goes on to its down otherwise
FindFile(r, name) ==
    IF FilesNamed(dir, name) = {}
    THEN runs' = Ends(r, FileNotFound)
    ELSE \E f \in FilesNamed(dir, name) :
             runs' = [runs EXCEPT ![r].pc = "down", ![r].todo = <<f>>]

\* the SELECT answers: if (!rows.length) return; then the file is looked up
SelectLatest(r) ==
    /\ runs[r].pc = "latest"
    /\ IF ~meta.exists THEN runs' = Ends(r, NotFound)
       ELSE IF meta.rows = <<>> THEN runs' = Ends(r, "ok")
       ELSE \E i \in Latest(meta.rows) : FindFile(r, meta.rows[i].name)
    /\ UNCHANGED <<dir, meta, ups>>

\* await migration.down(this.queryInterface, this): it completes, or it
\* throws and the call ends
InvokeDown(r) ==
    /\ runs[r].pc = "down"
    /\ \/ runs' = [runs EXCEPT ![r].pc = "delete", ![r].ran = runs[r].todo]
       \/ runs' = [Ends(r, DownThrew) EXCEPT ![r].ran = runs[r].todo]
    /\ UNCHANGED <<dir, meta, ups>>

\* DELETE FROM migrations WHERE name = '<migrationName>'
Deleted(rows, name) == SelectSeq(rows, LAMBDA row : row.name # name)

\* await this.bigquery.query(sql): the records of the name are deleted, or
\* the engine fails the statement
DeleteRecord(r) ==
    /\ runs[r].pc = "delete"
    /\ \/ /\ meta' = [meta EXCEPT !.rows = Deleted(@, migrationName(Head(runs[r].todo)))]
          /\ runs' = Ends(r, "ok")
       \/ /\ runs' = Ends(r, EngineFailure)
          /\ UNCHANGED meta
    /\ UNCHANGED <<dir, ups>>

\* one step of the revertLastMigration call of caller r
revertLastMigration(r) ==
    /\ \/ BeginRevert(r)
       \/ SelectLatest(r)
       \/ InvokeDown(r)
       \/ DeleteRecord(r)
    /\ UNCHANGED <<compilerVars, modelVars, db, call, ret, sent, flights>>

----------------------------------------------------------------------------
(* The predicate compiler applied to one filter tree *)

NotBuilt == [status |-> "none", clause |-> <<>>, params |-> EmptyMap, nextIndex |-> 0]

NoCall == [op |-> "none"]
NoRet == [status |-> "none", error |-> "", value |-> <<>>, n |-> 0]

NoDeclared == [c \in Classes |-> EmptyMap]

\* the callers of the application, and what a caller awaits: nothing
Callers == {"first", "second"}
Landed == [state |-> "idle"]
NoFlights == [s \in Callers |-> Landed]
NoData == [c \in Classes |-> <<>>]

InitWhere ==
    /\ whereIn \in Trees
    /\ indexIn \in 0..MaxStart
    /\ built = NotBuilt
    /\ tableName = [c \in Classes |-> InitTableName(c, FALSE)]
    /\ attributes = InitAttributes
    /\ associations = EmptyMap
    /\ declared = NoDeclared
    /\ configIn = NoConfig
    /\ config = NewConfig(configIn)
    /\ db = NoData
    /\ call = NoCall
    /\ ret = NoRet
    /\ sent = <<>>
    /\ NoMigrations
    /\ flights = NoFlights

\* a call buildWhereClause(whereIn, {}, indexIn); no path of it throws
Compile ==
    /\ built.status = "none"
    /\ built' = [status |-> "ok"] @@ buildWhereClause(whereIn, EmptyMap, indexIn)
    /\ UNCHANGED <<whereIn, indexIn, modelVars, db, call, ret, sent, migrationVars, flights>>

NextWhere == Compile

SpecWhere == InitWhere /\ [][NextWhere]_vars

----------------------------------------------------------------------------
(* The operations of a model class (src/model.ts findAll, findOne, count) *)

\* the static fields the operations read
M == [tableName |-> tableName, attributes |-> attributes, associations |-> associations]

Threw(error) == [status |-> "error", error |-> error, value |-> <<>>, n |-> 0]
Returned(value, n) == [status |-> "ok", error |-> "", value |-> value, n |-> n]

Statement(stmt) == [sql |-> stmt.sql, params |-> stmt.params]

\* the end of findAll: q is what the engine answered to stmt
Nested(this, options, m, stmt, q) ==
    IF q.err # "" THEN [ret |-> Threw(q.err), sent |-> <<Statement(stmt)>>]
    ELSE IF options.raw THEN [ret |-> Returned(q.rows, 0), sent |-> <<Statement(stmt)>>]
    ELSE [ ret |-> Returned(nestAssociations(this, q.rows, options.include, m), 0),
           sent |-> <<Statement(stmt)>> ]

\* the end of count: rows[0]?.count || 0
Counted(stmt, q) ==
    IF q.err # "" THEN [ret |-> Threw(q.err), sent |-> <<Statement(stmt)>>]
    ELSE [ ret |-> Returned(<<>>, IF q.rows = <<>> THEN 0 ELSE q.rows[1][CountKey]),
           sent |-> <<Statement(stmt)>> ]

\* stmt is what buildSelectQuery returned, or the error it threw: the
\* statement goes to the engine only when it was built
Run(op, this, options, m, data, stmt) ==
    IF stmt.err # "" THEN [ret |-> Threw(stmt.err), sent |-> <<>>]
    ELSE IF op = "count" THEN Counted(stmt, Query(stmt, m, data))
    ELSE Nested(this, options, m, stmt, Query(stmt, m, data))

\* findAll(options): [ret, sent]
findAll(this, options, m, data) ==
    Run("findAll", this, options, m, data, buildSelectQuery(this, options, <<>>, m))

\* results[0] || null; the value is <<>> for null
FirstOrNull(r) ==
    IF r.ret.status = "ok"
    THEN [r EXCEPT !.ret.value = IF @ = <<>> THEN <<>> ELSE <<Head(@)>>]
    ELSE r

\* findOne(options): findAll({ ...options, limit: 1 }), then results[0] || null
findOne(this, options, m, data) ==
    FirstOrNull(findAll(this, [options EXCEPT !.limit = 1], m, data))

\* count(options)
count(this, options, m, data) ==
    Run("count", this, options, m, data,
        buildSelectQuery(this, options, CountSelect(this, m.tableName), m))

ReadOps == {"findAll", "findOne", "count"}

Operation(op, this, options, m, data) ==
    CASE op = "findAll" -> findAll(this, options, m, data)
      [] op = "findOne" -> findOne(this, options, m, data)
      [] OTHER          -> count(this, options, m, data)

\* the call and its outcome r recorded
Outcome(op, this, options, r) ==
    /\ call' = [op |-> op, this |-> this, options |-> options]
    /\ ret' = r.ret
    /\ sent' = r.sent
    /\ UNCHANGED <<compilerVars, modelVars, db, migrationVars, flights>>

\* one call of a read operation
Read(op, this, options) == Outcome(op, this, options, Operation(op, this, options, M, db))

----------------------------------------------------------------------------
(* The application that declares at most MaxDecl associations between     *)
(* users and posts, and then makes one read through an include             *)

MaxDecl == 2

\* the rows of the tables
UserRow(id, a) == (primaryKey :> id) @@ (ColA :> a)
PostRow(id, userId, b) == (primaryKey :> id) @@ (UserId :> userId) @@ (ColB :> b)
LinkRow(userId, postId) == (UserId :> userId) @@ (PostId :> postId)

SomeData ==
    [ User |-> <<UserRow(1, 1), UserRow(2, 2)>>,
      Post |-> <<PostRow(1, 1, 1)>>,
      Link |-> <<LinkRow(1, 1)>> ]

AliasX == <<"x">>
Hosts == {"User", "Post"}
Other(c) == IF c = "User" THEN "Post" ELSE "User"
Kinds == {"belongsTo", "hasOne", "hasMany", "belongsToMany"}

InitAssoc ==
    /\ whereIn = NoWhere
    /\ indexIn = 0
    /\ built = NotBuilt
    /\ \E explicit \in BOOLEAN :
           tableName = [c \in Classes |-> InitTableName(c, explicit)]
    /\ attributes = InitAttributes
    /\ associations = EmptyMap
    /\ declared = NoDeclared
    /\ configIn = NoConfig
    /\ config = NewConfig(configIn)
    /\ db = SomeData
    /\ call = NoCall
    /\ ret = NoRet
    /\ sent = <<>>
    /\ NoMigrations
    /\ flights = NoFlights

DeclaredCount ==
    Cardinality({<<c, k>> \in Classes \X UNION {DOMAIN declared[c] : c \in Classes} :
                    k \in DOMAIN declared[c]})

\* this.<kind>(Other(this), { as }) with or without the alias; belongsToMany
\* goes through Link, or is declared without its through model
DeclareAssociation ==
    \E kind \in Kinds, this \in Hosts, as \in {<<>>, AliasX}, through \in {"Link", "none"} :
        LET options == [NoOptions EXCEPT !.as = as, !.through = through]
        IN  /\ through = "Link" => kind = "belongsToMany"
            /\ call.op \notin ReadOps
            /\ DeclaredCount < MaxDecl
            /\ Declare(kind, this, Other(this), options)
            /\ call' = [op |-> kind, this |-> this, target |-> Other(this),
                        options |-> options]
            /\ ret' = NoRet
            /\ sent' = <<>>
            /\ UNCHANGED <<compilerVars, db, migrationVars, flights>>

AssocIncludes ==
    {<<>>} \cup {<<Include(model, as, NoWhere, required)>> :
                   model \in Hosts, as \in {<<>>, AliasX}, required \in BOOLEAN}

\* a read on a host, with at most one include, with or without its alias
ReadThroughInclude ==
    /\ call.op \notin ReadOps
    /\ \E op \in ReadOps, this \in Hosts, include \in AssocIncludes :
           Read(op, this, [NoFindOptions EXCEPT !.include = include])

NextAssoc == DeclareAssociation \/ ReadThroughInclude

SpecAssoc == InitAssoc /\ [][NextAssoc]_vars

----------------------------------------------------------------------------
(* What the claims say of the predicate compiler *)

RECURSIVE Entries(_)
\* every entry of a filter tree, at any depth
Entries(w) ==
    UNION { {w.ents[i]} \cup UNION { Entries(w.ents[i].kids[j]) :
                                       j \in 1..Len(w.ents[i].kids) } :
            i \in 1..Len(w.ents) }

UnknownOpLeaf(e) == e.t = "object" /\ Len(e.ops) = 1 /\ e.ops[1].op \notin DOMAIN Op
MultiKeyLeaf(e) == e.t = "object" /\ Len(e.ops) > 1
PlainLeaf(e) ==
    \/ e.t = "scalar"
    \/ e.t = "array" /\ Len(e.vals) > 0
    \/ e.t = "object" /\ Len(e.ops) = 1 /\ e.ops[1].op \in DOMAIN Op
EmptySpot(e) ==
    e.t = "trees" /\ (e.kids = <<>> \/ \E j \in 1..Len(e.kids) : e.kids[j].ents = <<>>)

RECURSIVE Meaning(_, _)
\* the meaning of a filter tree on a row (a function from the columns to
\* values): the conjunction of its entries, a combinator without conditions
\* being true
Meaning(w, row) ==
    \A i \in 1..Len(w.ents) :
        LET e == w.ents[i]
        IN  CASE e.t = "scalar" -> row[e.key] = e.val
              [] e.t = "array"  -> \E j \in 1..Len(e.vals) : row[e.key] = e.vals[j]
              [] e.t = "object" -> Cmp(Op[e.ops[1].op], row[e.key], e.ops[1].val) = "T"
              [] OTHER ->
                    IF e.key = AndKey \/ e.kids = <<>>
                    THEN \A j \in 1..Len(e.kids) : Meaning(e.kids[j], row)
                    ELSE \E j \in 1..Len(e.kids) : Meaning(e.kids[j], row)

\* one table, not aliased, holding the row
RowCtx(params, row) ==
    [params |-> params,
     env |-> << [as |-> <<>>, cols |-> DOMAIN row, row |-> row, isNull |-> FALSE] >>]

\* the clause as its callers read it: the empty clause stands for TRUE
\* (model.ts: whereClause || "TRUE", and no WHERE at all in a select)
ClauseValue(clause, params, row) ==
    IF clause = <<>> THEN "T" ELSE EvalExpr(clause, RowCtx(params, row))

\* C7: compiling an operator leaf whose operator is not a key of the
\* operator table fails with an invalid-operator error; a compilation that
\* returns normally had no such leaf.
C7_UnknownOperatorRejected ==
    built.status = "ok" => \A e \in Entries(whereIn) : ~UnknownOpLeaf(e)

\* C8: compiling a leaf whose operator object has more than one key is
\* rejected as malformed; a compilation that returns normally had no such
\* leaf.
C8_MultiKeyRejected ==
    built.status = "ok" => \A e \in Entries(whereIn) : ~MultiKeyLeaf(e)

\* C9: a filter holding an and/or without conditions (an empty array, or an
\* empty child), wherever it occurs, compiles to a well-formed expression
\* that means what the tree means with TRUE in the place of the empty part.
C9_EmptyFilterIsTrue ==
    (/\ built.status = "ok"
     /\ \A e \in Entries(whereIn) : e.t = "trees" \/ PlainLeaf(e)
     /\ \E e \in Entries(whereIn) : EmptySpot(e))
    => \A row \in [Cols -> Vals] :
           ClauseValue(built.clause, built.params, row)
               = (IF Meaning(whereIn, row) THEN "T" ELSE "F")

RECURSIVE ValuesOfEntries(_, _)
RECURSIVE ValuesOfKids(_, _)

\* the values an entry binds, depth first and left to right: one for a
\* scalar and for an operator object, one per element of an array, those
\* of its children for a combinator
ValuesOfEntry(e) ==
    CASE e.t = "scalar" -> <<e.val>>
      [] e.t = "array"  -> e.vals
      [] e.t = "object" -> <<FirstOpVal(e.ops)>>
      [] OTHER          -> ValuesOfKids(e.kids, 1)

ValuesOfEntries(ents, i) ==
    IF i > Len(ents) THEN <<>>
    ELSE ValuesOfEntry(ents[i]) \o ValuesOfEntries(ents, i + 1)

ValuesOfKids(kids, j) ==
    IF j > Len(kids) THEN <<>>
    ELSE ValuesOfEntries(kids[j].ents, 1) \o ValuesOfKids(kids, j + 1)

IsParam(t) == t.k = "param"

\* the compilation numbered the values vs from start on: the placeholders
\* of the text are those numbers in order, each bound to its value, and
\* the next index is the number after the last
NumberedFrom(b, start, vs) ==
    /\ b.nextIndex = start + Len(vs)
    /\ SelectSeq(b.clause, IsParam) = [j \in 1..Len(vs) |-> ParamName(start + j - 1)]
    /\ DOMAIN b.params = {ParamName(start + j - 1) : j \in 1..Len(vs)}
    /\ \A j \in 1..Len(vs) : b.params[ParamName(start + j - 1)] = vs[j]

\* the text of child j of the combinator entry e of a compilation started
\* at start: the child compiled on its own, from the number after those
\* the children before it bind
ChildText(e, j, start) ==
    <<Tok("(")>>
    \o buildWhereClause(e.kids[j], EmptyMap,
                        start + Len(ValuesOfKids(SubSeq(e.kids, 1, j - 1), 1))).clause
    \o <<Tok(")")>>

\* the text of the combinator entry e: its children in parentheses, in
\* order, the keyword of e between them
CombinatorText(e, start) ==
    Join([j \in 1..Len(e.kids) |-> ChildText(e, j, start)],
         <<Tok(IF e.key = AndKey THEN "AND" ELSE "OR")>>)

\* C19: compiling a combinator node with children t1..tn yields the
\* children's expressions, each in parentheses, in the given order, joined
\* by the keyword of the combinator; the parameters of a compilation are
\* numbered contiguously from the start index in depth-first left-to-right
\* order, the next index returned is the start index plus the number of
\* bound values, and the bindings returned are exactly those of all
\* descendants.
C19_CounterThreaded ==
    built.status = "ok" =>
        /\ NumberedFrom(built, indexIn, ValuesOfEntries(whereIn.ents, 1))
        /\ (Len(whereIn.ents) = 1 /\ whereIn.ents[1].t = "trees") =>
               built.clause = CombinatorText(whereIn.ents[1], indexIn)

\* C19 at work: { or: [{ a: 1 }, { b: 2 }] } compiled from index 1 is
\* (a = @param1) OR (b = @param2), the next index 3
C19_SecondChildContinues ==
    /\ built.status = "ok"
    /\ indexIn = 1
    /\ whereIn = Obj(<<TreesEnt(OrKey, << Obj(<<ScalarEnt(<<"a">>, 1)>>),
                                          Obj(<<ScalarEnt(<<"b">>, 2)>>) >>)>>)
    /\ built.clause = <<Tok("(")>> \o Quoted(<<"a">>) \o <<Tok("="), ParamName(1), Tok(")"),
                         Tok("OR"), Tok("(")>> \o Quoted(<<"b">>)
                       \o <<Tok("="), ParamName(2), Tok(")")>>
    /\ built.params = (ParamName(1) :> 1) @@ (ParamName(2) :> 2)
    /\ built.nextIndex = 3

----------------------------------------------------------------------------
(* What the claims say of associations and includes *)

\* the last call was a read operation
IsRead == call.op \in ReadOps

\* sub occurs in t as a run of consecutive tokens
Contains(t, sub) ==
    \E i \in 0..(Len(t) - Len(sub)) : SubSeq(t, i + 1, i + Len(sub)) = sub

\* the entries of reg an include names: same alias, same target
Named(reg, inc) ==
    {k \in DOMAIN reg : reg[k].as = IncludeAs(inc, tableName) /\ reg[k].target = inc.model}

\* the alias a declaration of a.type on a.target takes when it is given none
DefaultAlias(this, a) ==
    NewAssociation(a.type, this, a.target, [NoOptions EXCEPT !.through = a.through]).as

\* C4: the registry of every entity holds exactly the associations declared
\* on that entity, the last declaration per alias; a declaration on another
\* entity leaves it alone.
C4_RegistryPerEntity ==
    \A h \in Classes : AssociationsOf(associations, h) = declared[h]

\* C5: after a find or count call, if some include names no registered
\* association (same alias and same target) the call has failed with the
\* association-not-found error and nothing was sent to the engine; otherwise
\* the statement sent holds, for every include, the join built from an
\* association the include names (no statement being sent for a
\* belongsToMany association that lacks its through model).
C5_IncludeNeedsAssociation ==
    IsRead =>
        LET reg == AssociationsOf(associations, call.this)
            inc == call.options.include
        IN  IF \E i \in 1..Len(inc) : Named(reg, inc[i]) = {}
            THEN /\ ret.status = "error"
                 /\ ret.error = "Association not found"
                 /\ sent = <<>>
            ELSE /\ ret.error # "Association not found"
                 /\ \/ /\ ret.error = "Through model and otherKey required for belongsToMany"
                       /\ sent = <<>>
                    \/ /\ Len(sent) = 1
                       /\ \A i \in 1..Len(inc) : \E k \in Named(reg, inc[i]) :
                              Contains(sent[1].sql,
                                       JoinOf(call.this, inc[i], reg[k], tableName).sql)

\* C5 at work: an include whose alias is registered, for another target
C5_WrongTargetRefused ==
    /\ IsRead
    /\ Len(call.options.include) = 1
    /\ \E k \in DOMAIN AssociationsOf(associations, call.this) :
           /\ associations[k].as = IncludeAs(call.options.include[1], tableName)
           /\ associations[k].target # call.options.include[1].model
    /\ ret.error = "Association not found"
    /\ sent = <<>>

\* C6: an include that omits its alias resolves the association declared on
\* the host without an alias, whatever its kind and the table name of the
\* target.
C6_DefaultAliasesAgree ==
    (/\ IsRead
     /\ Len(call.options.include) = 1
     /\ call.options.include[1].as = <<>>
     /\ \E k \in DOMAIN declared[call.this] :
            /\ declared[call.this][k].target = call.options.include[1].model
            /\ declared[call.this][k].as = DefaultAlias(call.this, declared[call.this][k]))
    => ret.error # "Association not found"

\* how often tok stands in the text t
Occurrences(t, tok) == Cardinality({i \in 1..Len(t) : t[i] = tok})

\* JOIN table AS alias ON left = right
JoinClause(type, table, alias, left, right) ==
    <<Tok(type)>> \o TableRef(table) \o <<Tok("AS")>> \o Quoted(alias)
    \o <<Tok("ON")>> \o left \o <<Tok("=")>> \o right

JoinTypes == {"INNER JOIN", "LEFT OUTER JOIN"}

\* the joins the claim gives the association a, an include inc of a read on
\* host names, in the join type of the include
ClaimedJoins(host, inc, as, type, a) ==
    CASE a.type = "belongsTo" ->
             JoinClause(type, tableName[inc.model], as,
                        QualifiedRef(tableName[host], a.foreignKey),
                        QualifiedRef(as, primaryKey))
      [] a.type \in {"hasOne", "hasMany"} ->
             JoinClause(type, tableName[inc.model], as,
                        QualifiedRef(tableName[host], primaryKey),
                        QualifiedRef(as, a.foreignKey))
      [] OTHER ->
             JoinClause(type, tableName[a.through], as \o <<"_", "t", "h", "r", "o", "u", "g", "h">>,
                        QualifiedRef(tableName[host], primaryKey),
                        QualifiedRef(as \o <<"_", "t", "h", "r", "o", "u", "g", "h">>,
                                     a.foreignKey))
             \o JoinClause(type, tableName[inc.model], as,
                           QualifiedRef(as \o <<"_", "t", "h", "r", "o", "u", "g", "h">>,
                                        a.otherKey),
                           QualifiedRef(as, primaryKey))

MissingThrough(a) == a.type = "belongsToMany" /\ (a.through = "none" \/ a.otherKey = <<>>)

\* the statement sent holds the claimed joins of a, and no other join
JoinsAsClaimed(host, inc, type, a) ==
    IF MissingThrough(a)
    THEN /\ ret.status = "error"
         /\ ret.error = "Through model and otherKey required for belongsToMany"
         /\ sent = <<>>
    ELSE /\ Len(sent) = 1
         /\ Contains(sent[1].sql,
                     ClaimedJoins(host, inc, IncludeAs(inc, tableName), type, a))
         /\ Occurrences(sent[1].sql, Tok(type)) = IF a.type = "belongsToMany" THEN 2 ELSE 1
         /\ \A other \in JoinTypes \ {type} : Occurrences(sent[1].sql, Tok(other)) = 0

\* C18: the join of an include follows the kind of its association:
\* belongsTo joins host.foreignKey = target.primaryKey; hasOne and hasMany
\* join host.primaryKey = target.foreignKey; belongsToMany emits two joins
\* of the same join type, host.primaryKey = through.foreignKey and then
\* through.otherKey = target.primaryKey, and fails with the missing-through
\* error, nothing being sent, when the through entity or the other key is
\* absent.
C18_JoinFollowsKind ==
    (IsRead /\ Len(call.options.include) = 1) =>
        \A k \in Named(AssociationsOf(associations, call.this), call.options.include[1]) :
            JoinsAsClaimed(call.this, call.options.include[1],
                           IF call.options.include[1].required
                           THEN "INNER JOIN" ELSE "LEFT OUTER JOIN",
                           associations[k])

\* C18 at work: a required include of a belongsToMany association, read
\* through its two inner joins
C18_TwoInnerJoinsThrough ==
    /\ IsRead
    /\ Len(call.options.include) = 1
    /\ call.options.include[1].required
    /\ \E k \in Named(AssociationsOf(associations, call.this), call.options.include[1]) :
           /\ associations[k].type = "belongsToMany"
           /\ associations[k].through = "Link"
    /\ ret.status = "ok"
    /\ Len(sent) = 1
    /\ Occurrences(sent[1].sql, Tok("INNER JOIN")) = 2

----------------------------------------------------------------------------
(* The application that reads users with their posts: User.hasMany(Post)   *)
(* and User.hasOne(Post, { as: "post" }), the tables named users and       *)
(* posts, one read per run over a table of at most MaxPosts posts          *)

MaxPosts == 2
MaxIncludes == 1

PostAlias == <<"p", "o", "s", "t">>

UserHasManyPosts == NewAssociation("hasMany", "User", "Post", NoOptions)
UserHasOnePost == NewAssociation("hasOne", "User", "Post", [NoOptions EXCEPT !.as = PostAlias])

\* every posts table of n rows: the ids 1..n, any user, any b
PostTables(n) ==
    { [i \in 1..n |-> PostRow(i, f[i].userId, f[i].b)] :
          f \in [1..n -> [userId : {1, 2}, b : Vals]] }

FindData ==
    { [User |-> <<UserRow(1, 1), UserRow(2, 2)>>, Post |-> p, Link |-> <<>>] :
          p \in UNION {PostTables(n) : n \in 0..MaxPosts} }

InitFind ==
    /\ whereIn = NoWhere
    /\ indexIn = 0
    /\ built = NotBuilt
    /\ tableName = [c \in Classes |-> InitTableName(c, TRUE)]
    /\ attributes = InitAttributes
    /\ associations = Register(Register(EmptyMap, UserHasManyPosts), UserHasOnePost)
    /\ declared = [NoDeclared EXCEPT
                      !["User"] = Register(Register(EmptyMap, UserHasManyPosts),
                                           UserHasOnePost)]
    /\ configIn = NoConfig
    /\ config = NewConfig(configIn)
    /\ db \in FindData
    /\ call = NoCall
    /\ ret = NoRet
    /\ sent = <<>>
    /\ NoMigrations
    /\ flights = NoFlights

RootFilters == {NoWhere} \cup {Obj(<<ScalarEnt(ColA, v)>>) : v \in Vals}
PostFilters == {NoWhere} \cup {Obj(<<ScalarEnt(ColB, v)>>) : v \in Vals}

PostIncludes ==
    {Include("Post", as, w, required) :
        as \in {<<>>, PostAlias}, w \in PostFilters, required \in BOOLEAN}

IncludeLists == UNION {[1..n -> PostIncludes] : n \in 0..MaxIncludes}

\* User.findAll / findOne / count({ where, include })
FindUsers ==
    /\ call = NoCall
    /\ \E op \in ReadOps, where \in RootFilters,
          include \in IncludeLists :
           Read(op, "User", [NoFindOptions EXCEPT !.where = where, !.include = include])

NextFind == FindUsers

SpecFind == InitFind /\ [][NextFind]_vars

----------------------------------------------------------------------------
(* What the claims say of the statements and results of reads *)

RECURSIVE BoundValues(_)
\* the values a filter tree supplies: one per scalar leaf and per operator
\* operand, one per element of a sequence leaf
BoundValues(w) ==
    LET N(e) == CASE e.t = "scalar" -> 1
                  [] e.t = "array"  -> Len(e.vals)
                  [] e.t = "object" -> Len(e.ops)
                  [] OTHER -> 0
        RECURSIVE Sum(_, _)
        Sum(f, n) == IF n = 0 THEN 0 ELSE f[n] + Sum(f, n - 1)
    IN  Sum([i \in 1..Len(w.ents) |->
                N(w.ents[i])
                + Sum([j \in 1..Len(w.ents[i].kids) |-> BoundValues(w.ents[i].kids[j])],
                      Len(w.ents[i].kids))],
            Len(w.ents))

\* the values the filters of the options supply, root and includes
SuppliedValues(options) ==
    LET RECURSIVE Sum(_, _)
        Sum(f, n) == IF n = 0 THEN 0 ELSE f[n] + Sum(f, n - 1)
    IN  BoundValues(options.where)
        + Sum([i \in 1..Len(options.include) |-> BoundValues(options.include[i].where)],
              Len(options.include))

\* the text compares column col with a placeholder that is bound to v
BoundTo(sql, params, col, v) ==
    \E k \in 1..Len(sql) :
        /\ sql[k] = Id(col)
        /\ \E p \in {k + 2, k + 3} :
               /\ p <= Len(sql)
               /\ sql[p - 1] = Tok("=")
               /\ sql[p].k = "param"
               /\ sql[p] \in DOMAIN params
               /\ params[sql[p]] = v

ScalarLeaves(w) == {e \in Entries(w) : e.t = "scalar"}

\* the text after WHERE
WherePart(sql) ==
    IF \E k \in 1..Len(sql) : sql[k] = Tok("WHERE")
    THEN SubSeq(sql, 1 + CHOOSE k \in 1..Len(sql) : sql[k] = Tok("WHERE"), Len(sql))
    ELSE <<>>

\* C1: in the statement a read sends, the bindings hold one entry per value
\* the root filter and the include filters supply, and each comparison of a
\* scalar leaf is with a placeholder bound to the value of that leaf.
C1_ParamNamesDistinct ==
    (IsRead /\ sent # <<>>) =>
        /\ Cardinality(DOMAIN sent[1].params) = SuppliedValues(call.options)
        /\ \A e \in ScalarLeaves(call.options.where) :
               BoundTo(sent[1].sql, sent[1].params, e.key, e.val)
        /\ \A i \in 1..Len(call.options.include) :
               \A e \in ScalarLeaves(call.options.include[i].where) :
                   BoundTo(sent[1].sql, sent[1].params, e.key, e.val)

\* the posts of user u that the include inc matches
MatchingPosts(u, inc) ==
    {k \in 1..Len(db.Post) :
        /\ db.Post[k][UserId] = u[primaryKey]
        /\ Meaning(inc.where, db.Post[k])}

\* the field of an include in a root object holds no child
EmptyField(cell) == cell = ListCell(<<>>) \/ cell = ValCell(Undefined)

\* C3: findAll on users with one include of posts: with required, a user
\* without a matching post is absent from the result; without it, every
\* user the root filter accepts is present, the field of the include null or
\* empty when no post matched.
C3_RequiredDecidesRoots ==
    (/\ call.op = "findAll"
     /\ ret.status = "ok"
     /\ Len(call.options.include) = 1)
    => LET inc == call.options.include[1]
           Has(u) == \E k \in 1..Len(ret.value) :
                         ret.value[k][primaryKey] = ValCell(u[primaryKey])
           Of(u) == ret.value[CHOOSE k \in 1..Len(ret.value) :
                                  ret.value[k][primaryKey] = ValCell(u[primaryKey])]
       IN  \A r \in 1..Len(db.User) :
               Meaning(call.options.where, db.User[r]) =>
                   IF inc.required
                   THEN MatchingPosts(db.User[r], inc) = {} => ~Has(db.User[r])
                   ELSE /\ Has(db.User[r])
                        /\ MatchingPosts(db.User[r], inc) = {} =>
                               EmptyField(Of(db.User[r])[IncludeAs(inc, tableName)])

\* C10: every column of the filter of an include stands in the WHERE of the
\* statement as a delimited name qualified by the delimited alias of the
\* include.
C10_IncludeColumnsDelimited ==
    (IsRead /\ sent # <<>>) =>
        \A i \in 1..Len(call.options.include) :
            \A e \in {e \in Entries(call.options.include[i].where) : e.t # "trees"} :
                Contains(WherePart(sent[1].sql),
                         QualifiedRef(IncludeAs(call.options.include[i], tableName), e.key))

----------------------------------------------------------------------------
(* src/model.ts update, destroy, increment, decrement                      *)
(*                                                                         *)
(* The data of update is Object.entries(data): a sequence of [field,       *)
(* value].  A statement goes to the engine as its text and bindings,       *)
(* together with the parts the text is made of: table, set (a sequence of  *)
(* [field, from, by], from = "param" for field = @set_field and "add" for  *)
(* field = field + by) and where.                                          *)

FreeTierError == "Free tier mode"

\* `field` = @set_field, ...
SetClauses(data) ==
    Join([k \in 1..Len(data) |->
             Quoted(data[k].field) \o <<Tok("="), SetName(data[k].field)>>],
         <<Tok(",")>>)

RECURSIVE SetValues(_, _, _)
\* Object.entries(data).reduce((acc, [field, value]) => ({ ...acc, [set_field]: value }), {})
SetValues(data, k, acc) ==
    IF k > Len(data) THEN acc
    ELSE SetValues(data, k + 1, Assign(acc, (SetName(data[k].field) :> data[k].value)))

\* `field` = `field` + by, ...
AddClauses(fieldArray, by) ==
    Join([k \in 1..Len(fieldArray) |->
             Quoted(fieldArray[k]) \o <<Tok("=")>> \o Quoted(fieldArray[k])
             \o <<Tok("+"), Lit(by)>>],
         <<Tok(",")>>)

\* whereClause || "TRUE"
OrTrue(clause) == IF clause = <<>> THEN <<Tok("TRUE")>> ELSE clause

UpdateText(table, set, where) ==
    <<Tok("UPDATE")>> \o TableRef(table) \o <<Tok("SET")>> \o set
    \o <<Tok("WHERE")>> \o where

DeleteText(table, where) ==
    <<Tok("DELETE"), Tok("FROM")>> \o TableRef(table) \o <<Tok("WHERE")>> \o where

\* the UPDATE of update: w is the compiled options.where
UpdateStatement(this, data, m, w) ==
    [ kind |-> "update", table |-> m.tableName[this],
      sql |-> UpdateText(m.tableName[this], SetClauses(data), OrTrue(w.clause)),
      params |-> Assign(SetValues(data, 1, EmptyMap), w.params),
      set |-> [k \in 1..Len(data) |-> [field |-> data[k].field, from |-> "param", by |-> 0]],
      where |-> OrTrue(w.clause) ]

\* the DELETE of destroy
DeleteStatement(this, m, w) ==
    [ kind |-> "delete", table |-> m.tableName[this],
      sql |-> DeleteText(m.tableName[this], OrTrue(w.clause)),
      params |-> w.params, set |-> <<>>, where |-> OrTrue(w.clause) ]

\* the UPDATE of increment
IncrementStatement(this, fieldArray, by, m, w) ==
    [ kind |-> "update", table |-> m.tableName[this],
      sql |-> UpdateText(m.tableName[this], AddClauses(fieldArray, by), OrTrue(w.clause)),
      params |-> w.params,
      set |-> [k \in 1..Len(fieldArray) |-> [field |-> fieldArray[k], from |-> "add", by |-> by]],
      where |-> OrTrue(w.clause) ]

----------------------------------------------------------------------------
(* The execution engine on UPDATE and DELETE: [err, data, affected] *)

\* the one table of the statement in scope, not aliased
TableScope(stmt, c, row, isNull, m) == << Scope(stmt.table, c, row, isNull, m) >>

WhereValue(stmt, env) ==
    IF stmt.where = <<Tok("TRUE")>> THEN "T"
    ELSE EvalExpr(stmt.where, [params |-> stmt.params, env |-> env])

\* the statement is well formed: something is set, no column twice, every
\* column exists, every placeholder is bound, the WHERE is an expression
DmlAccepts(stmt, c, m) ==
    /\ stmt.kind = "update" => stmt.set # <<>>
    /\ \A i, j \in 1..Len(stmt.set) : i # j => stmt.set[i].field # stmt.set[j].field
    /\ \A i \in 1..Len(stmt.set) :
           /\ stmt.set[i].field \in Range(m.attributes[c])
           /\ stmt.set[i].from = "param" => SetName(stmt.set[i].field) \in DOMAIN stmt.params
    /\ WhereValue(stmt, TableScope(stmt, c, NullRow, TRUE, m)) # "ERR"

\* NULL + n is NULL
Plus(x, n) == IF x = Undefined THEN Undefined ELSE x + n

\* the value an assignment gives its column in row
Assigned(a, row, params) ==
    IF a.from = "param" THEN params[SetName(a.field)]
    ELSE Plus(RowGet(row, a.field), a.by)

\* the row after SET
SetRow(row, stmt) ==
    [f \in DOMAIN row \cup {stmt.set[i].field : i \in 1..Len(stmt.set)} |->
        IF \E i \in 1..Len(stmt.set) : stmt.set[i].field = f
        THEN Assigned(stmt.set[CHOOSE i \in 1..Len(stmt.set) : stmt.set[i].field = f],
                      row, stmt.params)
        ELSE row[f]]

\* the rows of the table the WHERE selects
Selected(stmt, c, m, rows) ==
    {i \in 1..Len(rows) : WhereValue(stmt, TableScope(stmt, c, rows[i], FALSE, m)) = "T"}

\* the table after the statement: hit is the set of rows selected
Applied(stmt, rows, hit) ==
    IF stmt.kind = "delete"
    THEN SelectSeq([i \in 1..Len(rows) |-> IF i \in hit THEN <<>> ELSE <<rows[i]>>],
                   LAMBDA x : x # <<>>)
    ELSE [i \in 1..Len(rows) |-> IF i \in hit THEN <<SetRow(rows[i], stmt)>> ELSE <<rows[i]>>]

\* the statement run on the table of class c
Ran(stmt, c, m, data) ==
    [ err |-> "",
      data |-> [data EXCEPT ![c] =
                   Flatten(Applied(stmt, data[c], Selected(stmt, c, m, data[c])))],
      affected |-> Cardinality(Selected(stmt, c, m, data[c])) ]

\* the job run, and its answer lost while getQueryResults or getMetadata
\* is awaited
Lost(ran) == [ran EXCEPT !.err = EngineFailure, !.affected = 0]

ExecuteOn(stmt, c, m, data) ==
    IF Fault(data) = "rejects"
    THEN [err |-> EngineFailure, data |-> data, affected |-> 0]
    ELSE IF ~DmlAccepts(stmt, c, m)
    THEN [err |-> "Engine error", data |-> data, affected |-> 0]
    ELSE IF Fault(data) = "streaming"
    THEN [err |-> StreamingError, data |-> data, affected |-> 0]
    ELSE IF Fault(data) = "loses" THEN Lost(Ran(stmt, c, m, data))
    ELSE Ran(stmt, c, m, data)

Execute(stmt, m, data) == ExecuteOn(stmt, ClassOfTable(m.tableName, stmt.table), m, data)

----------------------------------------------------------------------------
(* The write operations: [ret, sent, db] *)

\* a write whose catch swallows the error of the engine
AffectedOrZero(stmt, r) ==
    [ret |-> Returned(<<>>, r.affected), sent |-> <<Statement(stmt)>>, db |-> r.data]

\* the end of a write: r is what the engine answered to stmt;
\* Number(metadata.statistics?.query?.numDmlAffectedRows || 0)
Affected(stmt, r) ==
    IF r.err # "" THEN [ret |-> Threw(r.err), sent |-> <<Statement(stmt)>>, db |-> r.data]
    ELSE [ret |-> Returned(<<>>, r.affected), sent |-> <<Statement(stmt)>>, db |-> r.data]

Refused(data) == [ret |-> Threw(FreeTierError), sent |-> <<>>, db |-> data]

CannotInStreamingBuffer == "Cannot UPDATE or DELETE rows currently in the streaming buffer"

\* the catch of update and of destroy: the streaming buffer error of the
\* engine is thrown again as an error of the ORM's own
Caught(r) ==
    IF r.ret.status = "error" /\ r.ret.error = StreamingError
    THEN [r EXCEPT !.ret = Threw(CannotInStreamingBuffer)]
    ELSE r

\* the statement submitted, unless the free tier mode refuses the operation
Submit(stmt, m, cfg, data) ==
    IF freeTierMode(cfg) THEN Refused(data)
    ELSE Affected(stmt, Execute(stmt, m, data))

update(this, values, options, m, cfg, data) ==
    Caught(Submit(UpdateStatement(this, values, m,
                                  buildWhereClause(options.where, EmptyMap, 0)),
                  m, cfg, data))

destroy(this, options, m, cfg, data) ==
    Caught(Submit(DeleteStatement(this, m, buildWhereClause(options.where, EmptyMap, 0)),
                  m, cfg, data))

\* options.by || 1
ByOrOne(by) == IF by = Undefined \/ by = 0 THEN 1 ELSE by

\* Array.isArray(fields) ? fields : [fields]
FieldArray(fields) == IF fields.isArray THEN fields.list ELSE <<fields.name>>

increment(this, fields, options, m, cfg, data) ==
    Submit(IncrementStatement(this, FieldArray(fields), ByOrOne(options.by), m,
                              buildWhereClause(options.where, EmptyMap, 0)),
           m, cfg, data)

\* this.increment(fields, { ...options, by: -(options.by || 1) })
decrement(this, fields, options, m, cfg, data) ==
    increment(this, fields, [options EXCEPT !.by = 0 - ByOrOne(options.by)], m, cfg, data)

\* table.insert(rows): the rows appended to the table; the request as the
\* engine received it
InsertAll(table, rows) == [table |-> table, rows |-> rows]

Inserted(this, rows, value, m, data) ==
    [ ret |-> Returned(value, 0),
      sent |-> <<InsertAll(m.tableName[this], rows)>>,
      db |-> [data EXCEPT ![this] = @ \o rows] ]

\* create resolves to the record it was given
create(this, record, m, cfg, data) ==
    IF freeTierMode(cfg) THEN Refused(data)
    ELSE Inserted(this, <<record>>, <<record>>, m, data)

\* if (data.length === 0) return
bulkCreate(this, records, m, cfg, data) ==
    IF freeTierMode(cfg) THEN Refused(data)
    ELSE IF records = <<>> THEN [ret |-> Returned(<<>>, 0), sent |-> <<>>, db |-> data]
    ELSE Inserted(this, records, <<>>, m, data)

\* the call and its outcome r recorded
Written(c, r) ==
    /\ call' = c
    /\ ret' = r.ret
    /\ sent' = r.sent
    /\ db' = r.db
    /\ UNCHANGED <<compilerVars, modelVars, migrationVars, flights>>

----------------------------------------------------------------------------
(* The application that writes to the users table: updates, deletions and  *)
(* counters moved by at most MaxBy, while every counter is within MaxA     *)

MaxBy == 2
MaxA == 2
MaxUsers == 2

InitWrite ==
    /\ whereIn = NoWhere
    /\ indexIn = 0
    /\ built = NotBuilt
    /\ tableName = [c \in Classes |-> InitTableName(c, TRUE)]
    /\ attributes = InitAttributes
    /\ associations = EmptyMap
    /\ declared = NoDeclared
    /\ configIn \in [logging : {FALSE}, freeTierMode : BOOLEAN]
    /\ config = NewConfig(configIn)
    /\ db = [User |-> <<UserRow(1, 1), UserRow(2, 2)>>, Post |-> <<>>, Link |-> <<>>]
    /\ call = NoCall
    /\ ret = NoRet
    /\ sent = <<>>
    /\ NoMigrations
    /\ flights = NoFlights

WriteFilters ==
    {NoWhere, Obj(<<ScalarEnt(primaryKey, 1)>>), Obj(<<ScalarEnt(ColA, 1)>>)}

\* by: absent, or an integer
Amounts == {Undefined} \cup ((0 - 1)..MaxBy)

\* fields: one name, or an array of names
FieldsArguments ==
    { [isArray |-> FALSE, name |-> ColA, list |-> <<>>],
      [isArray |-> TRUE, name |-> <<>>, list |-> <<ColA>>] }

\* every counter of the table is within the bound
WithinBound ==
    \A i \in 1..Len(db.User) :
        db.User[i][ColA] >= 0 - MaxA /\ db.User[i][ColA] <= MaxA

\* User.update({ a: v }, { where })
UpdateUsers ==
    \E v \in Vals, where \in WriteFilters :
        Written([op |-> "update", this |-> "User",
                 data |-> <<[field |-> ColA, value |-> v]>>,
                 options |-> [where |-> where, by |-> Undefined]],
                update("User", <<[field |-> ColA, value |-> v]>>,
                       [where |-> where], M, config, db))

\* User.destroy({ where })
DestroyUsers ==
    \E where \in WriteFilters :
        Written([op |-> "destroy", this |-> "User", data |-> <<>>,
                 options |-> [where |-> where, by |-> Undefined]],
                destroy("User", [where |-> where], M, config, db))

\* User.increment(fields, { by, where })
IncrementUsers ==
    /\ WithinBound
    /\ \E fields \in FieldsArguments, by \in Amounts, where \in WriteFilters :
           Written([op |-> "increment", this |-> "User", data |-> <<>>,
                    fields |-> fields, options |-> [where |-> where, by |-> by]],
                   increment("User", fields, [where |-> where, by |-> by], M, config, db))

\* User.decrement(fields, { by, where })
DecrementUsers ==
    /\ WithinBound
    /\ \E fields \in FieldsArguments, by \in Amounts, where \in WriteFilters :
           Written([op |-> "decrement", this |-> "User", data |-> <<>>,
                    fields |-> fields, options |-> [where |-> where, by |-> by]],
                   decrement("User", fields, [where |-> where, by |-> by], M, config, db))

\* the records the application creates
NewUsers == {UserRow(3, 1)}

\* User.create(record), while the table holds fewer than MaxUsers rows
CreateUser ==
    /\ Len(db.User) < MaxUsers
    /\ \E record \in NewUsers :
           Written([op |-> "create", this |-> "User", data |-> <<record>>,
                    options |-> [where |-> NoWhere, by |-> Undefined]],
                   create("User", record, M, config, db))

\* User.bulkCreate(records), of no record or of one
BulkCreateUsers ==
    /\ Len(db.User) < MaxUsers
    /\ \E records \in {<<>>} \cup {<<r>> : r \in NewUsers} :
           Written([op |-> "bulkCreate", this |-> "User", data |-> records,
                    options |-> [where |-> NoWhere, by |-> Undefined]],
                   bulkCreate("User", records, M, config, db))

NextWrite ==
    \/ UpdateUsers
    \/ DestroyUsers
    \/ IncrementUsers
    \/ DecrementUsers
    \/ CreateUser
    \/ BulkCreateUsers

SpecWrite == InitWrite /\ [][NextWrite]_vars

----------------------------------------------------------------------------
(* What the claims say of the statements of writes *)

IsWrite == call.op \in {"update", "destroy", "increment", "decrement"}

\* C2: in the statement a write sends, every value the caller supplies is in
\* the bindings and stands in the text as a placeholder only: each update
\* value under the parameter of its field, and the amount of an increment
\* or decrement bound as well, no number being written into the text.
C2_ValuesNeverInlined ==
    (IsWrite /\ sent # <<>>) =>
        /\ \A k \in 1..Len(call.data) :
               /\ SetName(call.data[k].field) \in DOMAIN sent[1].params
               /\ sent[1].params[SetName(call.data[k].field)] = call.data[k].value
        /\ call.options.by # Undefined =>
               /\ \A k \in 1..Len(sent[1].sql) : sent[1].sql[k].k # "lit"
               /\ \E p \in DOMAIN sent[1].params : sent[1].params[p] = call.options.by

----------------------------------------------------------------------------
(* Reconstruction applied to the rows of an engine: User with its posts    *)
(* (hasMany or belongsToMany, alias posts) and its post (hasOne or         *)
(* belongsTo, alias post), over any sequence of at most MaxRows flat rows  *)
(* in any order, any of the three primary keys NULL in any row             *)

MaxRows == 2

PostsAlias == <<"p", "o", "s", "t", "s">>

\* the two declarations on User, for each pair of kinds
NestKinds == {<<"hasMany", "hasOne">>, <<"belongsToMany", "belongsTo">>}

ManyPosts(kind) ==
    NewAssociation(kind, "User", "Post",
                   [NoOptions EXCEPT
                       !.through = IF kind = "belongsToMany" THEN "Link" ELSE "none"])

OnePost(kind) == NewAssociation(kind, "User", "Post", [NoOptions EXCEPT !.as = PostAlias])

Keys == {Undefined, 1, 2}

\* the flat row of user u, its posts child p and its post child q: every
\* selected column under its alias_field name, the other columns of a
\* child following its key
FlatRow(u, p, q) ==
    LET Col(as, f) == as \o <<"_">> \o f
        users == <<"u", "s", "e", "r", "s">>
    IN  (Col(users, primaryKey) :> u) @@ (Col(users, ColA) :> u)
        @@ (Col(PostsAlias, primaryKey) :> p) @@ (Col(PostsAlias, UserId) :> u)
        @@ (Col(PostsAlias, ColB) :> p)
        @@ (Col(PostAlias, primaryKey) :> q) @@ (Col(PostAlias, UserId) :> u)
        @@ (Col(PostAlias, ColB) :> q)

FlatRows == {FlatRow(u, p, q) : u \in Keys, p \in Keys, q \in Keys}

RowLists == UNION {[1..n -> FlatRows] : n \in 0..MaxRows}

NestIncludes ==
    { <<Include("Post", <<>>, NoWhere, FALSE), Include("Post", PostAlias, NoWhere, FALSE)>>,
      <<Include("Post", PostAlias, NoWhere, FALSE), Include("Post", <<>>, NoWhere, FALSE)>>,
      <<Include("Post", <<>>, NoWhere, FALSE)>>,
      <<Include("Post", PostAlias, NoWhere, FALSE)>> }

InitNest ==
    /\ whereIn = NoWhere
    /\ indexIn = 0
    /\ built = NotBuilt
    /\ tableName = [c \in Classes |-> InitTableName(c, TRUE)]
    /\ \E kinds \in NestKinds :
           /\ associations = Register(Register(EmptyMap, ManyPosts(kinds[1])),
                                      OnePost(kinds[2]))
           /\ attributes = AttributesAfter(InitAttributes, "User", OnePost(kinds[2]))
           /\ declared = [NoDeclared EXCEPT
                             !["User"] = Register(Register(EmptyMap, ManyPosts(kinds[1])),
                                                  OnePost(kinds[2]))]
    /\ configIn = NoConfig
    /\ config = NewConfig(configIn)
    /\ db = NoData
    /\ call = NoCall
    /\ ret = NoRet
    /\ sent = <<>>
    /\ NoMigrations
    /\ flights = NoFlights

\* User.nestAssociations(rows, includes), as findAll calls it on the rows
\* the engine returned
Nest ==
    /\ call = NoCall
    /\ \E rows \in RowLists, includes \in NestIncludes :
           /\ call' = [op |-> "nestAssociations", this |-> "User",
                       rows |-> rows, includes |-> includes]
           /\ ret' = Returned(nestAssociations("User", rows, includes, M), 0)
           /\ UNCHANGED <<compilerVars, modelVars, db, sent, migrationVars, flights>>

NextNest == Nest

SpecNest == InitNest /\ [][NextNest]_vars

----------------------------------------------------------------------------
(* What the claims say of reconstruction *)

IsNest == call.op = "nestAssociations"

\* the includes of the call hold one with the alias as
Including(as) ==
    \E i \in 1..Len(call.includes) : IncludeAs(call.includes[i], tableName) = as

RootColumn == tableName["User"] \o <<"_">> \o primaryKey
KeyColumn(as) == as \o <<"_">> \o primaryKey

RECURSIVE FirstOccurrences(_)
\* the distinct elements of s, each at the place of its first occurrence
FirstOccurrences(s) ==
    IF s = <<>> THEN <<>>
    ELSE IF \E i \in 1..(Len(s) - 1) : s[i] = s[Len(s)]
    THEN FirstOccurrences(SubSeq(s, 1, Len(s) - 1))
    ELSE Append(FirstOccurrences(SubSeq(s, 1, Len(s) - 1)), s[Len(s)])

\* the values of column col in the rows, NULL left out, in row order
NonNull(rows, col) ==
    SelectSeq([i \in 1..Len(rows) |-> rows[i][col]], LAMBDA v : v # Undefined)

\* the rows of the root with the primary key u, in row order
RowsOfRoot(rows, u) == SelectSeq(rows, LAMBDA r : r[RootColumn] = u)

\* the child a row holds under the alias as
ChildIn(row, as) ==
    [f \in Range(attributes["Post"]) |-> row[as \o <<"_">> \o f]]

\* the primary keys of a sequence of children
KeysOfChildren(items) == [j \in 1..Len(items) |-> items[j][primaryKey]]

\* the first row of rows whose column col is v
FirstWith(rows, col, v) == rows[CHOOSE i \in 1..Len(rows) :
                                     rows[i][col] = v /\ \A j \in 1..(i - 1) : rows[j][col] # v]

\* C11: the field of a hasMany or belongsToMany include of every root object
\* is a sequence holding one child per distinct non-null child primary key
\* among the rows of that root, in the order of first occurrence.
C11_ManyFieldDeduplicated ==
    (IsNest /\ Including(PostsAlias)) =>
        \A k \in 1..Len(ret.value) :
            LET o == ret.value[k]
                mine == RowsOfRoot(call.rows, o[primaryKey].v)
            IN  /\ o[PostsAlias].t = "list"
                /\ KeysOfChildren(o[PostsAlias].items)
                       = FirstOccurrences(NonNull(mine, KeyColumn(PostsAlias)))
                /\ \A j \in 1..Len(o[PostsAlias].items) :
                       o[PostsAlias].items[j]
                           = ChildIn(FirstWith(mine, KeyColumn(PostsAlias),
                                               o[PostsAlias].items[j][primaryKey]),
                                     PostsAlias)

\* C11 at work: two rows of one root repeat one child of posts while the
\* other include multiplies the rows
C11_RepeatedChildOnce ==
    /\ IsNest
    /\ Len(call.includes) = 2
    /\ Len(call.rows) = 2
    /\ call.rows[1][RootColumn] = 1 /\ call.rows[2][RootColumn] = 1
    /\ call.rows[1][KeyColumn(PostsAlias)] = 2 /\ call.rows[2][KeyColumn(PostsAlias)] = 2
    /\ call.rows[1][KeyColumn(PostAlias)] # call.rows[2][KeyColumn(PostAlias)]
    /\ Len(ret.value) = 1
    /\ Len(ret.value[1][PostsAlias].items) = 1

\* C12: reconstruction returns one root object per distinct non-null root
\* primary key of the rows, in the order of first occurrence, its fields
\* those of the first row of the key; a row whose root primary key is NULL
\* gives no root object.
C12_OneRootPerKey ==
    IsNest =>
        /\ [k \in 1..Len(ret.value) |-> ret.value[k][primaryKey].v]
               = FirstOccurrences(NonNull(call.rows, RootColumn))
        /\ \A k \in 1..Len(ret.value) :
               ret.value[k][ColA]
                   = ValCell(FirstWith(call.rows, RootColumn,
                                       ret.value[k][primaryKey].v)
                                 [tableName["User"] \o <<"_">> \o ColA])

\* C12 at work: a row without root primary key that holds children, then two
\* roots in descending order of key
C12_NullRootDropped ==
    /\ IsNest
    /\ Len(call.rows) = 2
    /\ call.rows[1][RootColumn] = Undefined
    /\ call.rows[1][KeyColumn(PostsAlias)] # Undefined
    /\ call.rows[1][KeyColumn(PostAlias)] # Undefined
    /\ call.rows[2][RootColumn] = 2
    /\ Len(ret.value) = 1
    /\ ret.value[1][primaryKey] = ValCell(2)

\* C13: the field of a hasOne or belongsTo include of every root object is
\* null when no row of that root has a non-null child primary key, and
\* otherwise the child of the last row of that root that has one.
C13_OneFieldLastWins ==
    (IsNest /\ Including(PostAlias)) =>
        \A k \in 1..Len(ret.value) :
            LET o == ret.value[k]
                withChild == SelectSeq(RowsOfRoot(call.rows, o[primaryKey].v),
                                       LAMBDA r : r[KeyColumn(PostAlias)] # Undefined)
            IN  IF withChild = <<>>
                THEN o[PostAlias] = ValCell(Undefined)
                ELSE o[PostAlias] = ObjCell(ChildIn(withChild[Len(withChild)], PostAlias))

\* C13 at work: two rows of one root hold different children of post
C13_LaterChildReplaces ==
    /\ IsNest
    /\ Including(PostAlias)
    /\ Len(call.rows) = 2
    /\ call.rows[1][RootColumn] = 1 /\ call.rows[2][RootColumn] = 1
    /\ call.rows[1][KeyColumn(PostAlias)] = 1
    /\ call.rows[2][KeyColumn(PostAlias)] = 2
    /\ Len(ret.value) = 1
    /\ ret.value[1][PostAlias].t = "obj"
    /\ ret.value[1][PostAlias].items[1][primaryKey] = 2

----------------------------------------------------------------------------
(* The application that pages through users: one read with limit and       *)
(* offset, each absent or an integer from 0 up to its bound                *)

MaxLimit == 2
MaxOffset == 1

\* User.findAll / findOne / count({ limit, offset, raw })
PageUsers ==
    /\ call = NoCall
    /\ \E op \in ReadOps, limit \in {Undefined} \cup 0..MaxLimit,
          offset \in {Undefined} \cup 0..MaxOffset, raw \in BOOLEAN :
           Read(op, "User", [NoFindOptions EXCEPT
                                !.limit = limit, !.offset = offset, !.raw = raw])

NextPage == PageUsers

SpecPage == InitFind /\ [][NextPage]_vars

\* C14: a findAll or count given limit or offset as an integer, 0 included,
\* sends a statement that carries LIMIT and OFFSET with exactly that value,
\* and findAll with limit n returns at most n rows.
C14_LimitOffsetVerbatim ==
    (call.op \in {"findAll", "count"} /\ sent # <<>>) =>
        /\ call.options.limit # Undefined =>
               Contains(sent[1].sql, <<Tok("LIMIT"), Lit(call.options.limit)>>)
        /\ call.options.offset # Undefined =>
               Contains(sent[1].sql, <<Tok("OFFSET"), Lit(call.options.offset)>>)
        /\ (call.op = "findAll" /\ ret.status = "ok" /\ call.options.limit # Undefined) =>
               Len(ret.value) <= call.options.limit

----------------------------------------------------------------------------
(* The application that reads and writes the users table of an engine that *)
(* works, or fails every request in one of the ways of Faults              *)

InitEngine ==
    /\ whereIn = NoWhere
    /\ indexIn = 0
    /\ built = NotBuilt
    /\ tableName = [c \in Classes |-> InitTableName(c, TRUE)]
    /\ attributes = InitAttributes
    /\ associations = EmptyMap
    /\ declared = NoDeclared
    /\ configIn = NoConfig
    /\ config = NewConfig(configIn)
    /\ \E fault \in Faults :
           db = [ User |-> <<UserRow(1, 1), UserRow(2, 2)>>, Post |-> <<>>, Link |-> <<>>,
                  fault |-> fault ]
    /\ call = NoCall
    /\ ret = NoRet
    /\ sent = <<>>
    /\ NoMigrations
    /\ flights = NoFlights

\* User.findAll({ where }), User.findOne({ where }), User.count({ where })
ReadUsers ==
    \E op \in ReadOps, where \in WriteFilters :
        Read(op, "User", [NoFindOptions EXCEPT !.where = where])

NextEngine ==
    \/ ReadUsers
    \/ UpdateUsers
    \/ DestroyUsers
    \/ IncrementUsers

SpecEngine == InitEngine /\ [][NextEngine]_vars

IsEngineOp ==
    call.op \in {"findAll", "findOne", "count", "update", "destroy", "increment"}

\* C16: when the engine fails, findAll, findOne, count, update, destroy and
\* increment fail with an error to the caller, never a normal result, and
\* whether the engine fails or not the statement of the call was submitted
\* to it exactly once.
C16_FailureSurfacedOnce ==
    IsEngineOp =>
        /\ Len(sent) = 1
        /\ Fault(db) \in {"rejects", "loses"} => ret.status = "error"
        /\ (Fault(db) = "streaming" /\ ~IsRead) => ret.status = "error"

\* an update whose statement the engine ran and whose answer was lost: the
\* caller has the error, the statement went once, the rows are changed
C16_LostAnswerSurfaced ==
    /\ call.op = "update"
    /\ Fault(db) = "loses"
    /\ ret.status = "error"
    /\ ret.error = EngineFailure
    /\ Len(sent) = 1
    /\ db.User # <<UserRow(1, 1), UserRow(2, 2)>>

----------------------------------------------------------------------------
(* What the claims say of the free tier mode *)

IsDml == call.op \in {"create", "bulkCreate", "update", "destroy", "increment", "decrement"}

\* C15: when the ORM was constructed with freeTierMode enabled, every DML
\* operation (create, bulkCreate, update, destroy, increment, decrement)
\* fails with the free-tier error and nothing, insert or statement, reaches
\* the engine.
C15_FreeTierRefusesDml ==
    (IsDml /\ configIn.freeTierMode) =>
        /\ ret.status = "error"
        /\ ret.error = FreeTierError
        /\ sent = <<>>

----------------------------------------------------------------------------
(* The application that calls runMigrations one call after the other, at   *)
(* most MaxCalls times, over a directory of at most MaxMigrations          *)
(* migrations that grows between the calls                                 *)

MaxMigrations == 2
MaxCalls == 3

Files == {File(base, ext) : base \in 1..MaxMigrations, ext \in Exts}

InitMigrate ==
    /\ whereIn = NoWhere
    /\ indexIn = 0
    /\ built = NotBuilt
    /\ tableName = [c \in Classes |-> InitTableName(c, TRUE)]
    /\ attributes = InitAttributes
    /\ associations = EmptyMap
    /\ declared = NoDeclared
    /\ configIn = NoConfig
    /\ config = NewConfig(configIn)
    /\ db = NoData
    /\ call = NoCall
    /\ ret = NoRet
    /\ sent = <<>>
    /\ dir \in SUBSET Files
    /\ meta = [exists |-> FALSE, rows |-> <<>>]
    /\ runs = <<Idle, Idle>>
    /\ ups = EmptyMap
    /\ ended = <<>>
    /\ flights = NoFlights

\* a file is added to the directory while no call is running
AddFile ==
    /\ runs[1].pc \in {"idle", "done"}
    /\ \E f \in Files \ dir : dir' = dir \cup {f}
    /\ UNCHANGED <<compilerVars, modelVars, db, call, ret, sent, meta, runs, ups, ended, flights>>

\* the calls of the one caller, MaxCalls at most
RunSequentially ==
    /\ runs[1].pc \in {"idle", "done"} => runs[1].calls < MaxCalls
    /\ runMigrations(1)
    /\ UNCHANGED ended

NextMigrate == AddFile \/ RunSequentially

SpecMigrate == InitMigrate /\ [][NextMigrate]_vars

RECURSIVE Completed(_)
\* how often the ups of the files of S ran to their end
Completed(S) ==
    IF S = {} THEN 0
    ELSE ups[First(S)].completed + Completed(S \ {First(S)})

\* the files of the history that hold the migration of name
FilesOf(name) == {f \in DOMAIN ups : migrationName(f) = name}

\* the up of no migration ran to its end more than once
UpCompletedAtMostOnce ==
    \A f \in DOMAIN ups : Completed(FilesOf(migrationName(f))) <= 1

\* the ups of a call were invoked in the ascending order of the file names
RanAscending ==
    \A r \in DOMAIN runs :
        \A i, j \in 1..Len(runs[r].ran) : i < j => Before(runs[r].ran[i], runs[r].ran[j])

\* an up is invoked for a file whose name the meta table does not hold
OnlyPendingRun ==
    \A r \in DOMAIN runs :
        runs[r].pc = "up" => migrationName(Head(runs[r].todo)) \notin Executed(meta.rows)

\* a call that ended normally leaves the name of every migration file it
\* listed in the meta table
SuccessRecordsAll ==
    \A r \in DOMAIN runs :
        (runs[r].pc = "done" /\ runs[r].status = "ok") =>
            \A f \in runs[r].listed : migrationName(f) \in Executed(meta.rows)

\* C17: across the runMigrations calls made one after the other over a
\* directory that may grow between them, only pending migrations are run:
\* the up of each migration runs at most once in total, the ups of a call
\* are invoked in ascending file-name order, and after a call that ended
\* normally every migration file is recorded in the meta table.
C17_OnlyPendingOnce ==
    /\ UpCompletedAtMostOnce
    /\ RanAscending
    /\ OnlyPendingRun
    /\ SuccessRecordsAll

----------------------------------------------------------------------------
(* Two callers of one application: each call compiles and submits its      *)
(* statement at once, and awaits the answer of the engine while the other  *)
(* caller may call; User.hasMany(Post) is declared before                  *)

\* a findOne that sets the limit on the object it was given
LimitAssigned(op, options) ==
    IF op = "findOne" THEN [options EXCEPT !.limit = 1] ELSE options

\* what the call leaves of the options object of its caller: no operation
\* assigns to it, findOne passing on a copy, { ...options, limit: 1 }
HeldAfter(op, options) == options

\* the outcome [ret, sent, db] of the call c on the registries m and the
\* tables data
Performed(c, m, cfg, data) ==
    CASE c.op = "update"  -> update(c.this, c.values, c.options, m, cfg, data)
      [] c.op = "destroy" -> destroy(c.this, c.options, m, cfg, data)
      [] OTHER            -> Operation(c.op, c.this, c.options, m, data) @@ [db |-> data]

InitConcurrent ==
    /\ whereIn = NoWhere
    /\ indexIn = 0
    /\ built = NotBuilt
    /\ tableName = [c \in Classes |-> InitTableName(c, TRUE)]
    /\ attributes = InitAttributes
    /\ associations = Register(EmptyMap, UserHasManyPosts)
    /\ declared = [NoDeclared EXCEPT !["User"] = Register(EmptyMap, UserHasManyPosts)]
    /\ configIn = NoConfig
    /\ config = NewConfig(configIn)
    /\ db = [ User |-> <<UserRow(1, 1), UserRow(2, 2)>>,
              Post |-> <<PostRow(1, 1, 1)>>, Link |-> <<>> ]
    /\ call = NoCall
    /\ ret = NoRet
    /\ sent = <<>>
    /\ NoMigrations
    /\ flights = NoFlights

\* the calls of the callers: reads of users, with their posts or without,
\* updates and deletions of users, each under a filter on a
ConcurrentCalls ==
    { [op |-> op, this |-> "User", values |-> <<>>,
       options |-> [NoFindOptions EXCEPT !.where = where, !.include = include]] :
          op \in ReadOps, where \in RootFilters \ {NoWhere},
          include \in {<<>>, <<Include("Post", <<>>, NoWhere, FALSE)>>} }
    \cup
    { [op |-> "update", this |-> "User", values |-> <<[field |-> ColA, value |-> 1]>>,
       options |-> [NoFindOptions EXCEPT !.where = where]] :
          where \in RootFilters \ {NoWhere} }
    \cup
    { [op |-> "destroy", this |-> "User", values |-> <<>>,
       options |-> [NoFindOptions EXCEPT !.where = where]] :
          where \in RootFilters \ {NoWhere} }

\* caller s calls: the statement is compiled and submitted before the
\* first await
StartCall(s) ==
    /\ flights[s].state = "idle"
    /\ \E c \in ConcurrentCalls :
           flights' = [flights EXCEPT ![s] =
                          [ state |-> "flying", call |-> c,
                            held |-> HeldAfter(c.op, c.options),
                            sent |-> Performed(c, M, config, db).sent ]]
    /\ UNCHANGED <<compilerVars, modelVars, db, call, ret, sent, migrationVars>>

\* the engine answers the statement of caller s, and the call returns
AnswerCall(s) ==
    /\ flights[s].state = "flying"
    /\ call' = flights[s].call
    /\ ret' = Performed(flights[s].call, M, config, db).ret
    /\ sent' = flights[s].sent
    /\ db' = Performed(flights[s].call, M, config, db).db
    /\ flights' = [flights EXCEPT ![s] = Landed]
    /\ UNCHANGED <<compilerVars, modelVars, migrationVars>>

NextConcurrent == \E s \in Callers : StartCall(s) \/ AnswerCall(s)

SpecConcurrent == InitConcurrent /\ [][NextConcurrent]_vars

\* the registries of the application as it declared them
DeclaredApplication ==
    [ tableName |-> [c \in Classes |-> InitTableName(c, TRUE)],
      attributes |-> InitAttributes,
      associations |-> Register(EmptyMap, UserHasManyPosts) ]

\* what the call c submits when it is the only call of the application
SentAlone(c) == Performed(c, DeclaredApplication, NewConfig(NoConfig), NoData).sent

\* the placeholders of the filter are numbered from 0 on
NumberedFromZero(stmt) ==
    \E n \in 0..Len(stmt.sql) :
        {p \in DOMAIN stmt.params : IsParam(p)} = {ParamName(i) : i \in 0..(n - 1)}

----------------------------------------------------------------------------
(* findOne against findAll, over the users and posts of FindData *)

\* what findAll would return for the options of the recorded call
FindAllOfCall == findAll(call.this, call.options, M, db)

\* C21: findOne(options) ends as findAll(options) ends, with the first of
\* the roots findAll returns, or null when findAll returns none; the root
\* carries the children it carries in findAll.
C21_FindOneIsFirstOfFindAll ==
    call.op = "findOne" => ret = FirstOrNull(FindAllOfCall).ret

----------------------------------------------------------------------------
(* The application that filters by a disjunction beside another condition: *)
(* one compilation of { or: [A, B], c: v } (the keys in either order), and *)
(* one findAll of users by { or: [A, B] } with their posts filtered by F   *)

\* the filters { c: v }
OneColumn == {Obj(<<ScalarEnt(c, v)>>) : c \in Cols, v \in Vals}

\* the filters { or: [A, B], c: v } and { c: v, or: [A, B] }
Disjunctive ==
    UNION { { Obj(<<TreesEnt(OrKey, <<A, B>>), ScalarEnt(c, v)>>),
              Obj(<<ScalarEnt(c, v), TreesEnt(OrKey, <<A, B>>)>>) } :
            A \in OneColumn, B \in OneColumn, c \in Cols, v \in Vals }

\* the root filters { or: [{ a: v }, { a: w }] }
RootDisjunctions ==
    { Obj(<<TreesEnt(OrKey, <<Obj(<<ScalarEnt(ColA, v)>>), Obj(<<ScalarEnt(ColA, w)>>)>>)>>) :
          v \in Vals, w \in Vals }

InitConjoin ==
    /\ whereIn \in Disjunctive
    /\ indexIn \in 0..MaxStart
    /\ built = NotBuilt
    /\ tableName = [c \in Classes |-> InitTableName(c, TRUE)]
    /\ attributes = InitAttributes
    /\ associations = Register(EmptyMap, UserHasManyPosts)
    /\ declared = [NoDeclared EXCEPT !["User"] = Register(EmptyMap, UserHasManyPosts)]
    /\ configIn = NoConfig
    /\ config = NewConfig(configIn)
    /\ db = [ User |-> <<UserRow(1, 1), UserRow(2, 2)>>,
              Post |-> <<PostRow(1, 1, 1), PostRow(2, 1, 2)>>, Link |-> <<>> ]
    /\ call = NoCall
    /\ ret = NoRet
    /\ sent = <<>>
    /\ NoMigrations
    /\ flights = NoFlights

\* User.findAll({ where: { or: [A, B] }, include: [{ model: Post, where: F }] })
FindUsersOfPosts ==
    /\ call = NoCall
    /\ \E where \in RootDisjunctions, v \in Vals, required \in BOOLEAN :
           Read("findAll", "User",
                [NoFindOptions EXCEPT
                    !.where = where,
                    !.include = <<Include("Post", <<>>, Obj(<<ScalarEnt(ColB, v)>>),
                                          required)>>])

NextConjoin == Compile \/ FindUsersOfPosts

SpecConjoin == InitConjoin /\ [][NextConjoin]_vars

RECURSIVE Satisfies(_, _)
\* the row satisfies the filter: every key of the object holds, an "or"
\* key when one of its children holds, an "and" key when all of them do
Satisfies(w, row) ==
    \A i \in 1..Len(w.ents) :
        LET e == w.ents[i]
        IN  CASE e.t = "scalar" -> e.key \in DOMAIN row /\ row[e.key] = e.val
              [] e.t = "array"  -> e.key \in DOMAIN row
                                   /\ \E k \in 1..Len(e.vals) : row[e.key] = e.vals[k]
              [] e.t = "trees"  ->
                     IF e.key = OrKey
                     THEN \E k \in 1..Len(e.kids) : Satisfies(e.kids[k], row)
                     ELSE \A k \in 1..Len(e.kids) : Satisfies(e.kids[k], row)
              [] OTHER -> FALSE

\* the rows over the columns a and b
RowsOfCols == [Cols -> Vals]

\* one table without an alias holding the row
Unaliased(row) == << [as |-> <<>>, cols |-> Cols, row |-> row, isNull |-> FALSE] >>

\* a user joined with a post
UserWithPost(u, p, inc) ==
    << Scope(tableName["User"], "User", u, FALSE, M),
       Scope(IncludeAs(inc, tableName), "Post", p, FALSE, M) >>

SomeUsers == {UserRow(id, a) : id \in {1}, a \in Vals}
SomePosts == {PostRow(id, 1, b) : id \in {1}, b \in Vals}

\* the compiled { or: [A, B], c: v } holds of exactly the rows that satisfy
\* (A or B) and c = v
DisjunctionConjoinedWithKey ==
    (built.status = "ok" /\ whereIn \in Disjunctive) =>
        \A row \in RowsOfCols :
            (EvalExpr(built.clause, [params |-> built.params, env |-> Unaliased(row)]) = "T")
            <=> Satisfies(whereIn, row)

\* the WHERE of the statement holds of exactly the joined rows whose user
\* satisfies the root filter and whose post satisfies the include's filter
RootConjoinedWithInclude ==
    (call.op = "findAll" /\ sent # <<>>) =>
        \A u \in SomeUsers, p \in SomePosts :
            (EvalExpr(WherePart(sent[1].sql),
                      [ params |-> sent[1].params,
                        env |-> UserWithPost(u, p, call.options.include[1]) ]) = "T")
            <=> (Satisfies(call.options.where, u)
                 /\ Satisfies(call.options.include[1].where, p))

\* C22: under SQL precedence a row satisfies the compiled { or: [A, B], c: v }
\* exactly when it satisfies (A or B) and c = v, and a joined row satisfies
\* the WHERE of a findAll with root filter { or: [A, B] } and include filter
\* F exactly when it satisfies (A or B) and F.
C22_KeysConjoined ==
    DisjunctionConjoinedWithKey /\ RootConjoinedWithInclude

----------------------------------------------------------------------------
(* Two callers of runMigrations over one directory and one meta table:     *)
(* each calls once, and the steps of the two calls interleave at their     *)
(* awaits; the directory holds one .ts file per migration                  *)

TsFiles == {File(base, "ts") : base \in 1..MaxMigrations}

Runners == {1, 2}

InitInterleave ==
    /\ whereIn = NoWhere
    /\ indexIn = 0
    /\ built = NotBuilt
    /\ tableName = [c \in Classes |-> InitTableName(c, TRUE)]
    /\ attributes = InitAttributes
    /\ associations = EmptyMap
    /\ declared = NoDeclared
    /\ configIn = NoConfig
    /\ config = NewConfig(configIn)
    /\ db = NoData
    /\ call = NoCall
    /\ ret = NoRet
    /\ sent = <<>>
    /\ dir \in SUBSET TsFiles
    /\ meta \in {[exists |-> FALSE, rows |-> <<>>], [exists |-> TRUE, rows |-> <<>>]}
    /\ runs = <<Idle, Idle>>
    /\ ups = EmptyMap
    /\ ended = <<>>
    /\ flights = NoFlights

\* a step of the one call of caller r
RunInterleaved(r) ==
    /\ runs[r].pc \in {"idle", "done"} => runs[r].calls = 0
    /\ runMigrations(r)
    /\ UNCHANGED ended

NextInterleave == \E r \in Runners : RunInterleaved(r)

SpecInterleave == InitInterleave /\ [][NextInterleave]_vars

\* the records of the meta table that name the migration
RecordsOf(name) == {i \in 1..Len(meta.rows) : meta.rows[i].name = name}

\* no call failed: each is still running or ended normally
NoCallFailed == \A r \in Runners : runs[r].status \in {"none", "ok"}

BothEnded == \A r \in Runners : runs[r].pc = "done"

\* C23: when two runMigrations calls interleave at their awaits and neither
\* fails, the up of each migration runs at most once, and once both calls
\* have ended the meta table holds exactly one record per migration.
C23_InterleavedRunsOnce ==
    NoCallFailed =>
        /\ UpCompletedAtMostOnce
        /\ BothEnded =>
               \A f \in dir : Cardinality(RecordsOf(migrationName(f))) = 1

----------------------------------------------------------------------------
(* The application that calls runMigrations again after a failure: the     *)
(* calls of one caller, one after the other, over a directory that does    *)
(* not change                                                              *)

NextResume == RunSequentially

SpecResume == InitMigrate /\ [][NextResume]_vars

UpThrew == "up threw"

\* the up of f is invoked in this step and throws
Throws(f) ==
    /\ UpsOf(ups', f).invoked = UpsOf(ups, f).invoked + 1
    /\ UpsOf(ups', f).completed = UpsOf(ups, f).completed

\* the up of f threw in a call and its migration is not recorded
Unfinished(f) ==
    /\ UpsOf(ups, f).invoked > UpsOf(ups, f).completed
    /\ migrationName(f) \notin Executed(meta.rows)

\* the call of caller r ended by the throw of an up
FailedAtUp(r) == runs[r].pc = "done" /\ runs[r].status = UpThrew

Last(q) == q[Len(q)]

\* the throw ends the call with the error and inserts no record
ThrowEndsCall ==
    \A f \in Files : Throws(f) =>
        /\ FailedAtUp(1)'
        /\ Last(runs'[1].ran) = f
        /\ meta' = meta

\* the call that ended invokes no up and inserts no record
EndedCallIsQuiet ==
    (runs[1].pc = "done" /\ runs'[1].pc = "done") => (ups' = ups /\ meta' = meta)

\* after the failure the migrations applied earlier in the call are
\* recorded, and the one whose up threw is not, unless another file of the
\* directory carries its name
FailureKeepsEarlier ==
    FailedAtUp(1) =>
        /\ \A i \in 1..(Len(runs[1].ran) - 1) :
               migrationName(runs[1].ran[i]) \in Executed(meta.rows)
        /\ (\A g \in dir \ {Last(runs[1].ran)} :
                migrationName(g) # migrationName(Last(runs[1].ran)))
               => migrationName(Last(runs[1].ran)) \notin Executed(meta.rows)

\* the first up a call invokes is the one of the unfinished migration
ResumesWithUnfinished ==
    (runs[1].pc = "up" /\ runs[1].ran = <<>>) =>
        \A f \in Files : Unfinished(f) => Head(runs[1].todo) = f

----------------------------------------------------------------------------
(* The application that selects columns: one findAll of users with their   *)
(* posts, the columns of each given through attributes or left to default  *)

UserColumns == {<<>>, <<primaryKey>>, <<ColA>>, <<primaryKey, ColA>>}
PostColumns == {<<>>, <<primaryKey>>, <<ColB>>, <<primaryKey, ColB>>}

\* User.findAll({ attributes, include: [{ model: Post, attributes }] })
FindUsersSelecting ==
    /\ call = NoCall
    /\ \E main \in UserColumns, inc \in PostColumns, required \in BOOLEAN :
           Read("findAll", "User",
                [NoFindOptions EXCEPT
                    !.attributes = main,
                    !.include = <<[Include("Post", <<>>, NoWhere, required)
                                      EXCEPT !.attributes = inc]>>])

NextSelect == FindUsersSelecting

SpecSelect == InitFind /\ [][NextSelect]_vars

\* the options with every list of attributes left to default
AllColumns(options) ==
    [options EXCEPT
        !.attributes = <<>>,
        !.include = [i \in 1..Len(options.include) |->
                        [options.include[i] EXCEPT !.attributes = <<>>]]]

\* what the call returns when every column is selected
WithAllColumns == findAll(call.this, AllColumns(call.options), M, db).ret

\* the children of the root under the alias
ChildrenOf(root, as) == root[as].items

\* C25: a findAll with an include returns one root per root entity of the
\* engine's rows and one child per matched target row whatever columns are
\* selected: as many roots, each with as many children, as when every
\* column is selected.
C25_ColumnsDoNotChangeShape ==
    (call.op = "findAll" /\ ret.status = "ok" /\ Len(call.options.include) = 1) =>
        /\ Len(ret.value) = Len(WithAllColumns.value)
        /\ \A i \in 1..Len(ret.value) :
               Len(ChildrenOf(ret.value[i], IncludeAs(call.options.include[1], tableName)))
                   = Len(ChildrenOf(WithAllColumns.value[i],
                                    IncludeAs(call.options.include[1], tableName)))

----------------------------------------------------------------------------
(* The application that runs and reverts migrations: the calls of one      *)
(* caller, runMigrations or revertLastMigration, one after the other;      *)
(* between two calls a file may be removed from the directory              *)

\* the directories: one .ts file per migration, the first one compiled to
\* .js as well
RevertFiles == TsFiles \cup {File(1, "js")}

InitRevert ==
    /\ whereIn = NoWhere
    /\ indexIn = 0
    /\ built = NotBuilt
    /\ tableName = [c \in Classes |-> InitTableName(c, TRUE)]
    /\ attributes = InitAttributes
    /\ associations = EmptyMap
    /\ declared = NoDeclared
    /\ configIn = NoConfig
    /\ config = NewConfig(configIn)
    /\ db = NoData
    /\ call = NoCall
    /\ ret = NoRet
    /\ sent = <<>>
    /\ dir \in SUBSET RevertFiles
    /\ meta \in {[exists |-> FALSE, rows |-> <<>>], [exists |-> TRUE, rows |-> <<>>]}
    /\ runs = <<Idle, Idle>>
    /\ ups = EmptyMap
    /\ ended = <<>>
    /\ flights = NoFlights

\* the call of caller 1 that ends in this step joins the calls that ended
Logged(op) ==
    ended' = IF runs[1].pc # "done" /\ runs'[1].pc = "done"
             THEN Append(ended, [ op |-> op, status |-> runs'[1].status,
                                  ran |-> runs'[1].ran, listed |-> runs'[1].listed ])
             ELSE ended

\* a step of a runMigrations call of the caller
RunLogged ==
    /\ runs[1].pc \in {"idle", "done"} => runs[1].calls < MaxCalls
    /\ runMigrations(1)
    /\ Logged("run")

\* a step of a revertLastMigration call of the caller
RevertLogged ==
    /\ runs[1].pc \in {"idle", "done"} => runs[1].calls < MaxCalls
    /\ revertLastMigration(1)
    /\ Logged("revert")

\* a file is removed from the directory while no call is running
RemoveFile ==
    /\ runs[1].pc \in {"idle", "done"}
    /\ \E f \in dir : dir' = dir \ {f}
    /\ UNCHANGED <<compilerVars, modelVars, db, call, ret, sent, meta, runs, ups, ended, flights>>

NextRevert == RunLogged \/ RevertLogged \/ RemoveFile

SpecRevert == InitRevert /\ [][NextRevert]_vars

\* the names of the records that were inserted last
LatestNames ==
    { meta.rows[i].name : i \in { k \in 1..Len(meta.rows) :
          ~ \E j \in 1..Len(meta.rows) :
                meta.rows[j].executed_at > meta.rows[k].executed_at } }

NamesOf(files) == {migrationName(files[i]) : i \in 1..Len(files)}

\* the revert call is past its down: down was invoked for one file, the
\* one of the latest record
DownOfLatestOnly ==
    runs[1].pc = "delete" =>
        /\ Len(runs[1].ran) = 1
        /\ LatestNames = {migrationName(runs[1].ran[1])}

\* the revert that ends normally after its down leaves every record but
\* those of the latest name
DeletesLatestOnly ==
    (runs[1].pc = "delete" /\ runs'[1].status = "ok") =>
        /\ Executed(meta'.rows) = Executed(meta.rows) \ LatestNames
        /\ \A i \in 1..Len(meta'.rows) : \E j \in 1..Len(meta.rows) :
               meta'.rows[i] = meta.rows[j]

\* on an empty meta table the revert returns at once: no down, no change
EmptyDoesNothing ==
    (runs[1].pc = "latest" /\ meta.exists /\ meta.rows = <<>>) =>
        /\ runs'[1].pc = "done" /\ runs'[1].status = "ok" /\ runs'[1].ran = <<>>
        /\ meta' = meta

\* until its DELETE the revert leaves the meta table as it is, and a
\* revert that ends by a missing file or by the throw of down ends there
RecordStays ==
    /\ runs[1].pc \in {"latest", "down"} => meta' = meta
    /\ (runs[1].pc \in {"latest", "down", "delete"} /\ runs'[1].pc = "done"
        /\ runs'[1].status \in {FileNotFound, DownThrew}) => meta' = meta

\* calls k, k + 1, k + 2 are a run, a revert that invoked a down, and a
\* run, all ended normally, the file of the down still there at the end
RunRevertRun(k) ==
    /\ k + 2 <= Len(ended)
    /\ ended[k].op = "run" /\ ended[k].status = "ok"
    /\ ended[k + 1].op = "revert" /\ ended[k + 1].status = "ok"
    /\ Len(ended[k + 1].ran) = 1
    /\ ended[k + 2].op = "run" /\ ended[k + 2].status = "ok"
    /\ ended[k + 1].ran[1] \in ended[k + 2].listed

\* the run after the revert invokes the ups of the reverted migration only
RunRedoesReverted ==
    \A k \in 1..Len(ended) :
        RunRevertRun(k) => NamesOf(ended[k + 2].ran) = NamesOf(ended[k + 1].ran)

\* C26: revertLastMigration invokes down once, for the migration of the
\* latest record and no other, and deletes the records of that migration
\* only; a runMigrations that follows invokes up for that migration only;
\* on an empty meta table the revert does nothing, and when the file is
\* missing or down throws the record stays.
C26_RevertUndoesLatest ==
    /\ [][DeletesLatestOnly /\ EmptyDoesNothing /\ RecordStays]_vars
    /\ [](DownOfLatestOnly /\ RunRedoesReverted)

\* run, revert and run ended normally over two migrations: the revert
\* undid the second, and the run after it ran the second again
C26_SecondRedone ==
    /\ Len(ended) = 3
    /\ RunRevertRun(1)
    /\ ended[1].ran = <<File(1, "ts"), File(2, "ts")>>
    /\ ended[2].ran = <<File(2, "ts")>>
    /\ ended[3].ran = <<File(2, "ts")>>
    /\ Executed(meta.rows) = {1, 2}

----------------------------------------------------------------------------
(* The amounts of increment and decrement, over the writes of SpecWrite *)

\* the amount the SET clause is to add: by for increment and -by for
\* decrement, by being 1 when it is not given
AmountOf(op, by) ==
    IF op = "increment" THEN (IF by = Undefined THEN 1 ELSE by)
    ELSE (IF by = Undefined THEN 0 - 1 ELSE 0 - by)

\* field = field + n
AddsTo(field, n) ==
    Quoted(field) \o <<Tok("=")>> \o Quoted(field) \o <<Tok("+"), Lit(n)>>

\* C27: the statement of increment(fields, { by: n }) sets field = field + n
\* for each listed field and the one of decrement sets field = field + (-n),
\* for every integer n, 0 and the negative ones included; the amount is 1
\* and -1 when by is absent.
C27_AmountVerbatim ==
    (call.op \in {"increment", "decrement"} /\ sent # <<>>) =>
        \A k \in 1..Len(FieldArray(call.fields)) :
            Contains(sent[1].sql,
                     AddsTo(FieldArray(call.fields)[k],
                            AmountOf(call.op, call.options.by)))

====
